---- MODULE Spec2Model ----
(***************************************************************************)
(* Model of minutes_to_gh: the Minutes Linking Engine (src/engine.rs), the *)
(* issue reference parser (src/outcome.rs), the ownership filter           *)
(* (src/repositories.rs) and the tracker it talks to.                      *)
(*                                                                         *)
(* Strings are TLA+ strings, handled character by character with Len,      *)
(* SubSeq and \o.  An Option<T> is a tuple of length 0 (None) or 1 (Some). *)
(***************************************************************************)
EXTENDS Integers, Sequences, FiniteSets, TLC

VARIABLES
    new_result,          \* what Engine::new returned: "Ok", or the step that failed
    dom,                 \* Engine.dom: the parsed transcript, nodes in document order
    repos,               \* Engine.repos: Vec<Repository>
    extra_repositories,  \* EngineArgs.extra_repositories (--repository options)
    transcript,          \* Engine.transcript
    dry_run,             \* Engine.dry_run
    wait,                \* Engine.governor: ticks until the next permit is available
    bot,                 \* the chat front end: its position, its governor, what it sent
    timed,               \* whether the history keeps the times of its entries
    idle,                \* ticks since the last permit, listing, creation and
                         \* tracker call, each counted up to Period; -1 if none
    comments,            \* the tracker: issue key -> comments, in server order
    pc,                  \* position of the stream generator of Engine::run
    cursor,              \* issues_with_link: number of selected anchors consumed
    cur,                 \* the (issue, link, fragment) item being processed
    outcomes,            \* the outcomes yielded by the current run, in order
    log,                 \* history of the current run: permits, tracker calls, yields
    past,                \* the finished first run, if any: what it reported
    next_id              \* the tracker's next comment id

vars == <<new_result, dom, repos, extra_repositories, transcript, dry_run, wait,
          bot, timed, idle, comments, pc, cursor, cur, outcomes, log, past, next_id>>

-----------------------------------------------------------------------------
(* Bounds of the model *)

MaxHeadings == 2

-----------------------------------------------------------------------------
(* Option and string helpers *)

None == <<>>
Some(x) == <<x>>
IsSome(o) == Len(o) = 1
Unwrap(o) == o[1]

CharAt(s, i) == SubSeq(s, i, i)

Max(S) == CHOOSE x \in S : \A y \in S : y <= x

\* str::contains
contains(txt, pat) ==
    \E i \in 1..(Len(txt) - Len(pat) + 1) : SubSeq(txt, i, i + Len(pat) - 1) = pat

\* position of the first occurrence of pat in txt at or after from, 0 if none
Find(txt, pat, from) ==
    LET I == {i \in from..(Len(txt) - Len(pat) + 1) :
                SubSeq(txt, i, i + Len(pat) - 1) = pat}
    IN  IF I = {} THEN 0 ELSE CHOOSE i \in I : \A j \in I : i <= j

\* str::rfind of a one-character pattern, 0 if none
LastIndexOf(s, c) ==
    LET I == {i \in 1..Len(s) : CharAt(s, i) = c}
    IN  IF I = {} THEN 0 ELSE Max(I)

\* str::replace: every non-overlapping occurrence of from, left to right
RECURSIVE replace(_, _, _)
replace(s, from, to) ==
    LET i == Find(s, from, 1)
    IN  IF i = 0 THEN s
        ELSE SubSeq(s, 1, i - 1) \o to
             \o replace(SubSeq(s, i + Len(from), Len(s)), from, to)

Digits == {"0", "1", "2", "3", "4", "5", "6", "7", "8", "9"}

DigitVal(c) ==
    CASE c = "0" -> 0 [] c = "1" -> 1 [] c = "2" -> 2 [] c = "3" -> 3
      [] c = "4" -> 4 [] c = "5" -> 5 [] c = "6" -> 6 [] c = "7" -> 7
      [] c = "8" -> 8 [] c = "9" -> 9

AllDigits(s) == \A i \in 1..Len(s) : CharAt(s, i) \in Digits

\* u64::MAX, as a decimal string
U64Max == "18446744073709551615"

RECURSIVE StripZeros(_)
StripZeros(s) ==
    IF Len(s) > 1 /\ CharAt(s, 1) = "0" THEN StripZeros(Tail(s)) ELSE s

\* a < b for decimal strings of the same length
RECURSIVE DecLess(_, _)
DecLess(a, b) ==
    IF Len(a) = 0 THEN FALSE
    ELSE IF CharAt(a, 1) = CharAt(b, 1) THEN DecLess(Tail(a), Tail(b))
    ELSE DigitVal(CharAt(a, 1)) < DigitVal(CharAt(b, 1))

\* str::parse::<u64> of a non-empty string of digits: the value, kept as its
\* canonical decimal string, or None on overflow
ParseU64(digits) ==
    LET d == StripZeros(digits)
    IN  IF Len(d) > Len(U64Max) \/ (Len(d) = Len(U64Max) /\ DecLess(U64Max, d))
        THEN None
        ELSE Some(d)

-----------------------------------------------------------------------------
(* Issue reference parser: outcome.rs *)

\* the literal "//github.com" of RE_ISSUE, whose '.' matches any character
\* but a line feed
MatchesHost(s) ==
    /\ Len(s) = 12
    /\ SubSeq(s, 1, 8) = "//github"
    /\ CharAt(s, 9) # "\n"
    /\ SubSeq(s, 10, 12) = "com"

\* Issue::try_from_url.  RE_ISSUE is
\*   //github.com/([^/]+)/([^/]+)/(issues|pull|#)/([0-9]+)$
\* None of its four groups can hold a '/', and the match ends at the end of
\* the text, so the groups are the four last '/'-separated segments and the
\* host literal is the text right before them.  The result is tagged
\* "Some" (with the issue), "None", or "Panic" (parse().unwrap() on a
\* number that does not fit a u64).
try_from_url(url) ==
    LET p4     == LastIndexOf(url, "/")
        digits == SubSeq(url, p4 + 1, Len(url))
        r3     == SubSeq(url, 1, p4 - 1)
        p3     == LastIndexOf(r3, "/")
        kind   == SubSeq(r3, p3 + 1, Len(r3))
        r2     == SubSeq(url, 1, p3 - 1)
        p2     == LastIndexOf(r2, "/")
        repo   == SubSeq(r2, p2 + 1, Len(r2))
        r1     == SubSeq(url, 1, p2 - 1)
        p1     == LastIndexOf(r1, "/")
        owner  == SubSeq(r1, p1 + 1, Len(r1))
        r0     == SubSeq(url, 1, p1 - 1)
        matched ==
            /\ p4 > 0 /\ Len(digits) > 0 /\ AllDigits(digits)
            /\ p3 > 0 /\ kind \in {"issues", "pull", "#"}
            /\ p2 > 0 /\ Len(repo) > 0
            /\ p1 > 0 /\ Len(owner) > 0
            /\ Len(r0) >= 12 /\ MatchesHost(SubSeq(r0, Len(r0) - 11, Len(r0)))
    IN  IF ~matched THEN [tag |-> "None"]
        ELSE IF ParseU64(digits) = None THEN [tag |-> "Panic"]
        ELSE [tag |-> "Some",
              issue |-> [url |-> url, owner |-> owner, repo |-> repo,
                         id |-> Unwrap(ParseU64(digits))]]

-----------------------------------------------------------------------------
(* Ownership: repositories.rs *)

\* impl From<&str> for Repository: '{org}/{repo}', or '{repo}' in w3c
RepositoryFrom(value) ==
    LET i == Find(value, "/", 1)
    IN  IF i = 0
        THEN [name |-> value, owner |-> [login |-> "w3c"]]
        ELSE [name |-> SubSeq(value, i + 1, Len(value)),
              owner |-> [login |-> SubSeq(value, 1, i - 1)]]

\* Repository::contains comparing the names only
Repository_contains_name_only(r, issue) == issue.repo = r.name

\* Repository::contains
Repository_contains(r, issue) ==
    issue.owner = r.owner.login /\ issue.repo = r.name

\* owns with an empty list taken for a filter that is switched off
owns_or_no_list(rs, issue) ==
    rs = <<>> \/ \E i \in 1..Len(rs) : Repository_contains(rs[i], issue)

\* the ownership test of Engine::run: self.repos.iter().any(|r| r.contains(&issue))
owns(rs, issue) ==
    \E i \in 1..Len(rs) : Repository_contains(rs[i], issue)

-----------------------------------------------------------------------------
(* The document: a sequence of nodes in document order.  A node is          *)
(*   [kind, name, id, href, text, parent]                                   *)
(* with kind "element" or "text", id and href Option<string> attributes,    *)
(* and parent the index of the parent node (0: child of the root).          *)

ElementNode(name, id, href, parent) ==
    [kind |-> "element", name |-> name, id |-> id, href |-> href,
     text |-> "", parent |-> parent]

\* a comment of the markup: a node that is neither Text nor Element
CommentNode(text, parent) ==
    [kind |-> "comment", name |-> "", id |-> None, href |-> None,
     text |-> text, parent |-> parent]

TextNode(text, parent) ==
    [kind |-> "text", name |-> "", id |-> None, href |-> None,
     text |-> text, parent |-> parent]

\* ElementRef::wrap
IsElement(d, n) == d[n].kind = "element"

RECURSIVE SeqOfSet(_)
\* the elements of a set of numbers, ascending
SeqOfSet(S) ==
    IF S = {} THEN <<>>
    ELSE LET m == CHOOSE x \in S : \A y \in S : x <= y
         IN  <<m>> \o SeqOfSet(S \ {m})

Reverse(s) == [i \in 1..Len(s) |-> s[Len(s) + 1 - i]]

RECURSIVE ancestors(_, _)
\* NodeRef::ancestors: the parent, its parent, ... (the root is no element)
ancestors(d, n) ==
    IF d[n].parent = 0 THEN <<>>
    ELSE <<d[n].parent>> \o ancestors(d, d[n].parent)

\* NodeRef::prev_siblings: nearest first
prev_siblings(d, n) ==
    Reverse(SeqOfSet({m \in 1..(n - 1) : d[m].parent = d[n].parent}))

\* NodeRef::next_siblings: nearest first
next_siblings(d, n) ==
    SeqOfSet({m \in (n + 1)..Len(d) : d[m].parent = d[n].parent})

children(d, n) == SeqOfSet({m \in 1..Len(d) : d[m].parent = n})

element_ancestors(d, e) ==
    <<e>> \o SelectSeq(ancestors(d, e), LAMBDA n : IsElement(d, n))

element_prev_siblings(d, e) ==
    <<e>> \o SelectSeq(prev_siblings(d, e), LAMBDA n : IsElement(d, n))

\* RE_HN: ^[hH][1234]$
RE_HN_is_match(name) ==
    /\ Len(name) = 2
    /\ CharAt(name, 1) \in {"h", "H"}
    /\ CharAt(name, 2) \in {"1", "2", "3", "4"}

\* try_as_fragment_boundary: Some(e) if e is a h1..h4 with an id attribute
try_as_fragment_boundary(d, e) ==
    IF ~RE_HN_is_match(d[e].name) THEN None
    ELSE IF IsSome(d[e].id) THEN Some(e) ELSE None

not_fragment_boundary(d, n) ==
    IF ~IsElement(d, n) THEN TRUE
    ELSE try_as_fragment_boundary(d, n) = None

RECURSIVE FlatMapPrevSiblings(_, _)
FlatMapPrevSiblings(d, es) ==
    IF es = <<>> THEN <<>>
    ELSE element_prev_siblings(d, Head(es)) \o FlatMapPrevSiblings(d, Tail(es))

\* closest_hn with the last candidate taken, not the first
closest_hn_farthest(d, e) ==
    LET cands == SelectSeq(FlatMapPrevSiblings(d, element_ancestors(d, e)),
                           LAMBDA n : try_as_fragment_boundary(d, n) # None)
    IN  IF cands = <<>> THEN None ELSE Some(cands[Len(cands)])

\* the heading found by find_closest_hn_id: Option<node>
closest_hn(d, e) ==
    LET cands == SelectSeq(FlatMapPrevSiblings(d, element_ancestors(d, e)),
                           LAMBDA n : try_as_fragment_boundary(d, n) # None)
    IN  IF cands = <<>> THEN None ELSE Some(Head(cands))

-----------------------------------------------------------------------------
(* Excerpt extraction: engine.rs, extract_fragment *)

RECURSIVE Join(_)
\* collect::<Vec<_>>().join("")
Join(ss) == IF ss = <<>> THEN "" ELSE Head(ss) \o Join(Tail(ss))

Attr(k, o) == IF IsSome(o) THEN " " \o k \o "=\"" \o Unwrap(o) \o "\"" ELSE ""

RECURSIVE html(_, _)
\* ElementRef::html: the serialized markup of a node and its descendants
html(d, n) ==
    IF ~IsElement(d, n) THEN d[n].text
    ELSE "<" \o d[n].name \o Attr("id", d[n].id) \o Attr("href", d[n].href) \o ">"
         \o Join([i \in 1..Len(children(d, n)) |-> html(d, children(d, n)[i])])
         \o "</" \o d[n].name \o ">"

\* attributes that ammonia's default policy keeps on a tag
AllowedAttr(name, k) ==
    \/ k \in {"lang", "title"}
    \/ name = "a" /\ k \in {"href", "hreflang"}

RECURSIVE clean_attrs(_, _)
\* the attributes ( k="v")* of a start tag, without the disallowed ones
clean_attrs(name, attrs) ==
    IF Len(attrs) = 0 THEN ""
    ELSE LET eq   == Find(attrs, "=\"", 1)
             k    == SubSeq(attrs, 2, eq - 1)
             q    == Find(attrs, "\"", eq + 2)
             this == SubSeq(attrs, 1, q)
             rest == SubSeq(attrs, q + 1, Len(attrs))
         IN  (IF AllowedAttr(name, k) THEN this ELSE "") \o clean_attrs(name, rest)

RECURSIVE clean(_)
\* ammonia::clean with the default policy, on the markup html() produces:
\* script elements go with their content, attributes outside the allow-list
\* are dropped, and links get rel="noopener noreferrer"
clean(s) ==
    LET i == Find(s, "<", 1)
        j == Find(s, ">", i)
        tag  == SubSeq(s, i + 1, j - 1)
        sp   == Find(tag, " ", 1)
        name == IF sp = 0 THEN tag ELSE SubSeq(tag, 1, sp - 1)
        attrs == IF sp = 0 THEN "" ELSE SubSeq(tag, sp, Len(tag))
        close == Find(s, "</script>", j)
    IN  IF i = 0 THEN s
        ELSE IF name = "script"
        THEN SubSeq(s, 1, i - 1) \o clean(SubSeq(s, close + 9, Len(s)))
        ELSE SubSeq(s, 1, i - 1) \o "<" \o name \o clean_attrs(name, attrs)
             \o (IF name = "a" THEN " rel=\"noopener noreferrer\"" ELSE "")
             \o ">" \o clean(SubSeq(s, j + 1, Len(s)))

WordChars ==
    Digits \cup {"_"} \cup
    {"a", "b", "c", "d", "e", "f", "g", "h", "i", "j", "k", "l", "m",
     "n", "o", "p", "q", "r", "s", "t", "u", "v", "w", "x", "y", "z",
     "A", "B", "C", "D", "E", "F", "G", "H", "I", "J", "K", "L", "M",
     "N", "O", "P", "Q", "R", "S", "T", "U", "V", "W", "X", "Y", "Z"}

RECURSIVE WordEnd(_, _)
\* the last position of the run of word characters that starts at i
WordEnd(s, i) ==
    IF i < Len(s) /\ CharAt(s, i + 1) \in WordChars THEN WordEnd(s, i + 1) ELSE i

RECURSIVE at_word_replace(_)
\* AT_WORD.replace_all(content, "<code>$0</code>"), AT_WORD = @[A-Za-z0-9_]+
at_word_replace(s) ==
    LET i == Find(s, "@", 1)
    IN  IF i = 0 THEN s
        ELSE IF i < Len(s) /\ CharAt(s, i + 1) \in WordChars
        THEN LET e == WordEnd(s, i + 1)
             IN  SubSeq(s, 1, i - 1) \o "<code>" \o SubSeq(s, i, e) \o "</code>"
                 \o at_word_replace(SubSeq(s, e + 1, Len(s)))
        ELSE SubSeq(s, 1, i) \o at_word_replace(SubSeq(s, i + 1, Len(s)))

RECURSIVE SkipBoundaries(_, _)
\* TakeWhileNotBoundary with the boundaries left out and the nodes after
\* them kept
SkipBoundaries(d, ns) ==
    IF ns = <<>> THEN <<>>
    ELSE (IF not_fragment_boundary(d, Head(ns)) THEN <<Head(ns)>> ELSE <<>>)
         \o SkipBoundaries(d, Tail(ns))

RECURSIVE TakeWhileNotBoundary(_, _)
\* .take_while(not_fragment_boundary)
TakeWhileNotBoundary(d, ns) ==
    IF ns = <<>> \/ ~not_fragment_boundary(d, Head(ns)) THEN <<>>
    ELSE <<Head(ns)>> \o TakeWhileNotBoundary(d, Tail(ns))

\* extract_fragment: the DocFragment of heading e
extract_fragment(d, e) ==
    LET taken   == TakeWhileNotBoundary(d, next_siblings(d, e))
        \* filter_map: Text and Element make a part, any other node none
        sibs    == SelectSeq(taken, LAMBDA n : d[n].kind \in {"text", "element"})
        s_frags == [i \in 1..Len(sibs) |-> html(d, sibs[i])]
        markup  == Join(<<html(d, e)>> \o s_frags)
    IN  [id |-> Unwrap(d[e].id), content |-> at_word_replace(clean(markup))]

\* DocFragment::dummy
DocFragment_dummy(id) == [id |-> id, content |-> ""]

\* find_closest_hn_id: Option<DocFragment>
find_closest_hn_id(d, e, content) ==
    LET h == closest_hn(d, e)
    IN  IF h = None THEN None
        ELSE IF content THEN Some(extract_fragment(d, Unwrap(h)))
        ELSE Some(DocFragment_dummy(Unwrap(d[Unwrap(h)].id)))

-----------------------------------------------------------------------------
(* issues_with_link: engine.rs *)

\* SEL_matches with every anchor of the document selected
SEL_matches_any_anchor(d, n) == IsElement(d, n) /\ d[n].name = "a"

\* SEL: h1[id] a, h2[id] a, h3[id] a, h4[id] a, h5[id] a, h6[id] a
SEL_matches(d, n) ==
    /\ IsElement(d, n)
    /\ d[n].name = "a"
    /\ \E i \in 1..Len(ancestors(d, n)) :
          LET m == ancestors(d, n)[i]
          IN  /\ IsElement(d, m)
              /\ d[m].name \in {"h1", "h2", "h3", "h4", "h5", "h6"}
              /\ IsSome(d[m].id)

\* select with the matching elements last first
select_reversed(d) == Reverse(SeqOfSet({n \in 1..Len(d) : SEL_matches(d, n)}))

\* dom.select(&SEL): the matching elements, in document order
select(d) == SeqOfSet({n \in 1..Len(d) : SEL_matches(d, n)})

\* item_of with an anchor without heading linked to the top of the page
item_of_without_heading(d, url, tr, a) ==
    IF d[a].href = None THEN [tag |-> "Skip"]
    ELSE LET parsed == try_from_url(Unwrap(d[a].href))
             frag   == find_closest_hn_id(d, a, tr)
         IN  IF parsed.tag = "None" THEN [tag |-> "Skip"]
             ELSE IF parsed.tag = "Panic" THEN [tag |-> "Panic"]
             ELSE [tag |-> "Item",
                   issue |-> parsed.issue,
                   link |-> url \o "#" \o (IF frag = None THEN "" ELSE Unwrap(frag).id),
                   fragment |-> (IF frag = None THEN "" ELSE Unwrap(frag).content),
                   anchor |-> a]

\* what the pipeline of issues_with_link makes of anchor a: tagged "Skip",
\* "Panic", or "Item" with the (issue, link, fragment) triple
item_of(d, url, tr, a) ==
    IF d[a].href = None THEN [tag |-> "Skip"]
    ELSE LET parsed == try_from_url(Unwrap(d[a].href))
             frag   == find_closest_hn_id(d, a, tr)
         IN  IF parsed.tag = "None" THEN [tag |-> "Skip"]
             ELSE IF parsed.tag = "Panic" THEN [tag |-> "Panic"]
             ELSE IF frag = None THEN [tag |-> "Skip"]
             ELSE [tag |-> "Item",
                   issue |-> parsed.issue,
                   link |-> url \o "#" \o Unwrap(frag).id,
                   fragment |-> Unwrap(frag).content,
                   anchor |-> a]

RECURSIVE iter_next_take_while(_, _, _, _)
\* iter_next with the anchors taken only while they make items: the
\* iteration ends at the first anchor that is skipped
iter_next_take_while(d, url, tr, k) ==
    IF k >= Len(select(d)) THEN [tag |-> "End", pos |-> k]
    ELSE LET it == item_of(d, url, tr, select(d)[k + 1])
         IN  IF it.tag = "Skip" THEN [tag |-> "End", pos |-> k + 1]
             ELSE IF it.tag = "Panic" THEN [tag |-> "Panic", pos |-> k + 1]
             ELSE [tag |-> "Item", pos |-> k + 1, item |-> it]

RECURSIVE iter_next(_, _, _, _)
\* Iterator::next on issues_with_link after k anchors of select(d) were
\* consumed: tagged "Item" (with the item and the new position), "End" or
\* "Panic"
iter_next(d, url, tr, k) ==
    IF k >= Len(select(d)) THEN [tag |-> "End", pos |-> k]
    ELSE LET it == item_of(d, url, tr, select(d)[k + 1])
         IN  IF it.tag = "Skip" THEN iter_next(d, url, tr, k + 1)
             ELSE IF it.tag = "Panic" THEN [tag |-> "Panic", pos |-> k + 1]
             ELSE [tag |-> "Item", pos |-> k + 1, item |-> it]

-----------------------------------------------------------------------------
(* Engine::new: the configuration of the engine *)

\* EngineArgs.channel
ArgsChannel == "#rdf"

channel_name ==
    IF SubSeq(ArgsChannel, 1, 1) = "#" THEN Tail(ArgsChannel) ELSE ArgsChannel

\* Engine.url, for EngineArgs.date = 2026-11-04 and no --url
Engine_url ==
    "https://www.w3.org/" \o "2026" \o "/" \o "11" \o "/" \o "04" \o "-"
    \o channel_name \o "-minutes.html"

\* Engine.message_template
message_template ==
    "This was discussed during the [" \o ArgsChannel \o " meeting on "
    \o "04 November 2026" \o "](%URL%)."

\* Engine.governor: Quota::with_period(rate_limit), one permit per Period ticks
Period == 1

\* what the run is configured with: the repositories.json of the group(s),
\* which Engine::new loads, and the --repository options
Configs ==
    { [loaded |-> <<>>,
       extra  |-> <<"W3C/rdf">>],
      [loaded |-> <<[name |-> "rdf", owner |-> [login |-> "w3c"]]>>,
       extra  |-> <<>>],
      [loaded |-> <<[name |-> "RDF", owner |-> [login |-> "w3c"]],
                    [name |-> "rdf", owner |-> [login |-> "W3C"]]>>,
       extra  |-> <<"rdf">>] }

-----------------------------------------------------------------------------
(* The documents of the model *)

Hrefs ==
    [ owned    |-> "https://github.com/w3c/rdf/issues/1",
      other    |-> "https://github.com/W3C/rdf/pull/1",
      page     |-> "https://example.org/",
      overflow |-> "https://github.com/w3c/rdf/issues/18446744073709551616" ]

\* transcripts with structure: anchors in and out of headings, nested
\* elements, headings of every level, ids present, empty and absent
RichDocs ==
    LET E(name, id, parent) == ElementNode(name, id, None, parent)
        A(href, parent) == ElementNode("a", None, Some(href), parent)
    IN  { \* h1 a, then h2 b, then the anchor in a h5
          <<E("h1", Some("a"), 0), E("h2", Some("b"), 0),
            E("h5", Some("c"), 0), A(Hrefs.owned, 3)>>,
          \* the anchor nested in a span of the heading
          <<E("h2", Some("a"), 0), E("span", None, 1), A(Hrefs.owned, 2),
            TextNode("@bob", 3)>>,
          \* the anchor in the paragraph that follows the heading
          <<E("h2", Some("a"), 0), E("p", None, 0), A(Hrefs.owned, 2)>>,
          \* a heading whose id is empty
          <<E("h3", Some(""), 0), A(Hrefs.owned, 1)>>,
          \* a h5 with nothing before it, then a h2
          <<E("h5", Some("c"), 0), A(Hrefs.owned, 1),
            E("h2", Some("a"), 0), A(Hrefs.owned, 3)>>,
          \* the heading is the sibling of an ancestor of the anchor
          <<E("h2", Some("a"), 0), E("section", None, 0),
            E("h6", Some("d"), 2), A(Hrefs.owned, 3)>>,
          \* a heading without id, and a heading whose anchor is no issue
          <<E("h2", None, 0), A(Hrefs.owned, 1),
            E("h2", Some("a"), 0), A(Hrefs.page, 3)>>,
          \* an inner heading nearer than the outer one
          <<E("h2", Some("a"), 0), E("div", None, 0), E("h3", Some("b"), 2),
            E("h6", Some("d"), 2), A(Hrefs.owned, 4)>>,
          \* a heading after the anchor is not a heading before it
          <<E("h2", Some("a"), 0), E("h6", Some("d"), 0), A(Hrefs.owned, 2),
            E("h2", Some("b"), 0)>>,
          \* a h5 without id after a h4 with one
          <<E("h4", Some("x"), 0), E("h5", None, 0), A(Hrefs.owned, 2)>>,
          \* an anchor without href, then two anchors in one heading
          <<E("h2", Some("a"), 0), ElementNode("a", None, None, 1),
            A(Hrefs.owned, 1), A(Hrefs.other, 1)>>,
          \* a heading of level 5 between the heading and the anchor's own
          <<E("h1", Some("a"), 0), E("h5", Some("c"), 0), E("p", None, 0),
            E("h6", Some("d"), 0), A(Hrefs.owned, 4), TextNode("@bob", 4)>> }

\* hrefs that are issue URLs, and hrefs that differ from one in the scheme,
\* the host, the path, the kind or the number
Urls ==
    LET hosts == {"https://github.com/", "http://github.com/", "//github.com/",
                  "/github.com/", "https://githubXcom/", "https://example.org/",
                  "https://example.org/?u=//github.com/", "https://github.com/x/",
                  "github.com/", "/"}
        paths == {"w3c/rdf", "W3C/rdf.js", "w3c", "w3c//rdf", "/rdf"}
        kinds == {"issues", "pull", "#", "Issues", "pulls", "issue", ""}
        nums  == {"1", "0", "007", "42", "18446744073709551615",
                  "18446744073709551616", "", "1/", "12a", "1#top", "-1"}
    IN  {h \o "w3c/rdf/issues/1" : h \in hosts}
        \cup {"https://github.com/" \o p \o "/issues/1" : p \in paths}
        \cup {"https://github.com/w3c/rdf/" \o k \o "/1" : k \in kinds}
        \cup {"https://github.com/w3c/rdf/" \o k \o "/" \o n :
                 k \in {"issues", "pull", "#"}, n \in nums}
        \cup {"https://github.com/w3c/rdf/issues", "", "https://example.org/"}

\* transcripts of one heading whose anchor has one of the hrefs
UrlDocs ==
    {<<ElementNode("h2", Some("a"), None, 0),
       ElementNode("a", None, Some(u), 1)>> : u \in Urls}

\* the kinds of section: an element, with or without id, holding one anchor
Sections ==
    { [name |-> "h2",  id |-> Some("a"),  href |-> Hrefs.owned,    text |-> "@bob"],
      [name |-> "h2",  id |-> Some("ab"), href |-> Hrefs.other,    text |-> ""],
      [name |-> "h5",  id |-> Some("c"),  href |-> Hrefs.owned,    text |-> ""],
      [name |-> "h2",  id |-> Some("a"),  href |-> Hrefs.page,     text |-> ""],
      [name |-> "h2",  id |-> Some("a"),  href |-> Hrefs.overflow, text |-> ""] }

RECURSIVE DocOf(_, _)
\* the nodes of a sequence of sections, the first node getting index base + 1
DocOf(secs, base) ==
    IF secs = <<>> THEN <<>>
    ELSE LET s == Head(secs)
             nodes == <<ElementNode(s.name, s.id, None, 0),
                        ElementNode("a", None, Some(s.href), base + 1)>>
                      \o (IF s.text = "" THEN <<>> ELSE <<TextNode(s.text, base + 2)>>)
         IN  nodes \o DocOf(Tail(secs), base + Len(nodes))

SectionSeqs == UNION {[1..n -> Sections] : n \in 0..MaxHeadings}

Docs == {DocOf(ss, 0) : ss \in SectionSeqs}

-----------------------------------------------------------------------------
(* The tracker *)

\* per_page(200) of comment_to_link
PerPage == 200

IssueKey(issue) == [owner |-> issue.owner, repo |-> issue.repo, id |-> issue.id]

TrackerKeys ==
    {IssueKey(try_from_url(h).issue) :
        h \in {Hrefs.owned, Hrefs.other}}

\* the issues that the hrefs of document d refer to
IssueKeysOf(d) ==
    {IssueKey(try_from_url(Unwrap(d[n].href)).issue) :
        n \in {m \in 1..Len(d) :
                  /\ IsSome(d[m].href)
                  /\ try_from_url(Unwrap(d[m].href)).tag = "Some"}}

\* a comment: its body, its URL, and whether it is at or after min_date
Comment(body, html_url, recent) ==
    [body |-> body, html_url |-> html_url, recent |-> recent]

\* the comments an issue may hold before the first run
PreExisting ==
    { <<>>,
      <<Comment(None, "c1", TRUE),
        Comment(Some("See " \o Engine_url \o "#ab for details"), "c2", TRUE),
        Comment(Some("Minuted: " \o Engine_url \o "#a"), "c3", TRUE)>>,
      <<Comment(Some("Minuted: " \o Engine_url \o "#a"), "c4", FALSE)>> }

\* list_comments(id).since(min_date).per_page(200).send(): the first page
list_comments(key) ==
    LET since == SelectSeq(comments[key], LAMBDA c : c.recent)
    IN  SubSeq(since, 1, IF Len(since) < PerPage THEN Len(since) ELSE PerPage)

\* comment_to_link on a successful listing: Option<Comment>
comment_to_link(url, items) ==
    LET hits == SelectSeq(items,
                          LAMBDA c : IsSome(c.body) /\ contains(Unwrap(c.body), url))
    IN  IF hits = <<>> THEN None ELSE Some(Head(hits))

-----------------------------------------------------------------------------
(* Outcomes: outcome.rs *)

Outcome_created(issue, comment) ==
    [kind |-> "Created", issue |-> issue.url, detail |-> comment]
Outcome_faked(issue) ==
    [kind |-> "Faked", issue |-> issue.url, detail |-> ""]
Outcome_duplicate(issue, comment) ==
    [kind |-> "Duplicate", issue |-> issue.url, detail |-> comment]
Outcome_not_owned(issue) ==
    [kind |-> "NotOwned", issue |-> issue.url, detail |-> ""]
Outcome_error(issue, context) ==
    [kind |-> "Error", issue |-> issue.url, detail |-> context]

-----------------------------------------------------------------------------
(* Engine::new and Engine::run *)

\* the repos field built by Engine::new: the repositories.json of every
\* group, appended in order; args.extra_repositories is not read
Engine_new_repos(loaded, extra) == loaded

\* message with the template left as it is: the link is not substituted
message_without_link(link, fragment) ==
    IF transcript
    THEN message_template
         \o "\n\n<details><summary><i>View the transcript</i></summary>\n\n"
         \o fragment \o "\n<hr /></details>"
    ELSE message_template

\* message with the collapsible section appended whatever the configuration
message_always_details(link, fragment) ==
    replace(message_template, "%URL%", link)
    \o "\n\n<details><summary><i>View the transcript</i></summary>\n\n"
    \o fragment \o "\n<hr /></details>"

\* the comment body composed by Engine::run
message(link, fragment) ==
    LET m == replace(message_template, "%URL%", link)
    IN  IF transcript
        THEN m \o "\n\n<details><summary><i>View the transcript</i></summary>\n\n"
               \o fragment \o "\n<hr /></details>"
        ELSE m

\* comment.html_url of a comment the tracker creates
NewCommentUrl(issue) == issue.url \o "#issuecomment-" \o ToString(next_id)

\* an entry of the history: what happened, for which anchor, and when;
\* a permit or a call is entered with the ticks since the entry of its kind
\* before it (at), a call also with the ticks since the call before it
Event(ev, anchor, kind) ==
    [ev |-> ev, anchor |-> anchor, kind |-> kind,
     at   |-> IF timed /\ ev \in DOMAIN idle THEN idle[ev] ELSE -1,
     call |-> IF timed /\ ev \in {"list", "create"} THEN idle.call ELSE -1]

\* the counters of `idle` when the events evs happen
Restart(evs) == [k \in DOMAIN idle |-> IF k \in evs THEN 0 ELSE idle[k]]

\* resume_after with the stream ended by an Error outcome
resume_after_error_ends(kind) == IF kind = "Error" THEN "done" ELSE "suspended"

\* where the generator stands once it has yielded an outcome: every yield
\* of Engine::run is followed by `continue` or by the end of the loop body,
\* so the generator is suspended until the consumer polls it again
resume_after(kind) == "suspended"

\* yield: the outcome goes to the consumer; evs are the events that led to it
Yield(o, evs) ==
    /\ outcomes' = Append(outcomes, o)
    /\ log' = log \o evs \o <<Event("yield", Unwrap(cur).anchor, o.kind)>>
    /\ pc' = resume_after(o.kind)
    /\ cur' = None

\* after_permit without the ownership test
after_permit_no_filter(rs, issue) == "list_comments"

\* the ownership test of Engine::run, once the permit is granted
after_permit(rs, issue) ==
    IF ~owns(rs, issue) THEN "NotOwned" ELSE "list_comments"

\* after_listing without the dry-run test
after_listing_no_dry_run(ok, found, dry) ==
    IF ~ok THEN "Error"
    ELSE IF IsSome(found) THEN "Duplicate"
    ELSE "create_comment"

\* after_listing without the Duplicate arm: a comment found is ignored
after_listing_no_duplicate(ok, found, dry) ==
    IF ~ok THEN "Error"
    ELSE IF dry THEN "Faked"
    ELSE "create_comment"

\* after_listing with the dry-run test first: a dry run reads nothing
after_listing_dry_first(ok, found, dry) ==
    IF dry THEN "Faked"
    ELSE IF ~ok THEN "Error"
    ELSE IF IsSome(found) THEN "Duplicate"
    ELSE "create_comment"

\* the match on the result of comment_to_link, and the dry-run test
after_listing(ok, found, dry) ==
    IF ~ok THEN "Error"
    ELSE IF IsSome(found) THEN "Duplicate"
    ELSE IF dry THEN "Faked"
    ELSE "create_comment"

\* after_create with the failure of the call taken for a success
after_create_always_created(ok) == "Created"

\* the match on the result of create_comment
after_create(ok) == IF ok THEN "Created" ELSE "Error"

\* The consumer of the stream.  ircbot.rs drains it with try_for_each, whose
\* closure answers in the chat and is awaited before the stream is polled
\* again.  With the chat front end off the consumer is left open: it polls
\* when it wants and may fail on any outcome.

\* the channels and users the chat front end may send to
Dests == {"#rdf", "#did", "alice"}

\* what the chat front end is about to send: a message of kind privmsg,
\* action, join or part to dest, with a label saying what it narrates
Out(dest, kind, label, text) ==
    [dest |-> dest, kind |-> kind, label |-> label, text |-> text]

\* the state of the chat front end at position p with the messages inbox
\* still to come: no message in hand, an unused governor, nothing sent
BotState(p, inbox) ==
    [pc     |-> p,            \* position in Bot::poll and its handlers
     inbox  |-> inbox,        \* client.stream(): the messages to come
     seq    |-> 0,            \* the number of messages received
     msg    |-> None,         \* the message being handled
     cmd    |-> None,         \* the command parsed from it
     ctx    |-> "",           \* where the response in hand is sent from
     out    |-> None,         \* the response in hand
     todo   |-> <<>>,         \* the responses the handler sends after it
     count  |-> 0,            \* the counter c of do_link_issues
     cells  |-> [d \in Dests |-> 0],    \* Bot.governor: ticks until key is ready
     idle   |-> [d \in Dests |-> -1],   \* ticks since the last send to dest
     due    |-> 0,            \* cells[dest] when the response in hand was asked
     waited |-> 0,            \* ticks since it was asked
     sent   |-> <<>>]         \* the send calls made, in order

\* the chat front end off
BotOff == BotState("off", <<>>)

\* try_for_each polling the stream while a response is still to be sent
consumer_polls_ahead(b, n) == b.pc \in {"off", "try_for_each", "until_key_ready"}

\* whether the consumer polls the stream, n outcomes having been yielded
consumer_polls(b, n) ==
    b.pc = "off" \/ (b.pc = "try_for_each" /\ b.count = n)

\* whether the consumer's closure returned an error
consumer_failed(b) ==
    b.pc = "off" \/ (b.pc = "err" /\ b.ctx = "closure")

\* the steps of Engine::new that can fail, each ended by `?`
LoadResults ==
    {"Ok", "Failed loading minutes from file", "Failed loading minutes from url",
     "Failed reading the body of the minutes", "Failed loading JSON",
     "Failed decoding JSON"}

\* the steps of Engine::new that fail before the document is parsed
BeforeParse ==
    {"Failed loading minutes from file", "Failed loading minutes from url",
     "Failed reading the body of the minutes"}

\* Engine_new with the errors of the loads swallowed
Engine_new_unchecked(result) == "suspended"

\* Engine::new(...).await? in the front ends: an engine whose stream can be
\* polled, or no engine at all
Engine_new(result) == IF result = "Ok" THEN "suspended" ELSE "failed"

\* the state after Engine::new, for a transcript of docs, a group of
\* configs and a tracker whose issues hold the comments of pres
InitFrom(docs, configs, pres) ==
    /\ new_result \in LoadResults
    /\ pc = Engine_new(new_result)
    /\ IF new_result = "Ok"
       THEN /\ dom \in docs
            /\ \E c \in configs :
                  /\ extra_repositories = c.extra
                  /\ repos = Engine_new_repos(c.loaded, c.extra)
            /\ transcript \in BOOLEAN
            /\ dry_run \in BOOLEAN
       ELSE /\ IF new_result \in BeforeParse THEN dom = <<>> ELSE dom \in docs
            /\ extra_repositories = <<>>
            /\ repos = <<>>
            /\ transcript = FALSE
            /\ dry_run = FALSE
    /\ wait = 0
    /\ idle = [permit |-> -1, list |-> -1, create |-> -1, call |-> -1]
    /\ \E pre \in pres : comments = [k \in TrackerKeys \cup IssueKeysOf(dom) |-> pre]
    /\ cursor = 0
    /\ cur = None
    /\ outcomes = <<>>
    /\ log = <<>>
    /\ past = <<>>
    /\ next_id = 1

Init == timed = FALSE /\ bot = BotOff /\ InitFrom(Docs, Configs, PreExisting)

\* polled with the stream still run after the consumer dropped it
polled_after_drop(p) == p \in {"suspended", "dropped"}

\* a polled stream runs; a stream that ended, or was dropped, does not
polled(p) == p = "suspended"

\* the consumer polls the stream: the loop of Engine::run takes the next
\* item of issues_with_link, or ends
Poll ==
    /\ polled(pc)
    /\ consumer_polls(bot, Len(outcomes))
    /\ LET nx == iter_next(dom, Engine_url, transcript, cursor)
       IN  /\ cursor' = nx.pos
           /\ IF nx.tag = "Item"
              THEN pc' = "until_ready" /\ cur' = Some(nx.item)
              ELSE /\ pc' = (IF nx.tag = "End" THEN "done" ELSE "panicked")
                   /\ cur' = None
    /\ UNCHANGED <<bot, new_result, timed, dom, repos, extra_repositories, transcript, dry_run,
                   idle, wait,
                   comments, outcomes, log, past, next_id>>

\* replenish with a quota that never runs out
replenish_at_once(period) == 0

\* Quota::with_period(period): one cell, replenished a period after a permit
replenish(period) == period

\* ready with no regard for the cell
ready_always(w) == TRUE

\* RateLimiter::until_ready returns when the cell is there
ready(w) == w = 0

\* self.governor.until_ready().await returns, then the ownership test:
\* NotOwned is yielded, or the listing of the issue's comments is requested
UntilReady ==
    /\ pc = "until_ready"
    /\ ready(wait)
    /\ wait' = replenish(Period)
    /\ LET it == Unwrap(cur)
           permit == Event("permit", it.anchor, "")
       IN  IF after_permit(repos, it.issue) = "NotOwned"
           THEN /\ Yield(Outcome_not_owned(it.issue), <<permit>>)
                /\ idle' = Restart({"permit"})
           ELSE /\ pc' = "list_comments"
                /\ idle' = Restart({"permit", "list", "call"})
                /\ log' = log \o <<permit, Event("list", it.anchor, "")>>
                /\ UNCHANGED <<cur, outcomes>>
    /\ UNCHANGED <<bot, new_result, timed, dom, repos, extra_repositories, transcript, dry_run,
                   comments, cursor, past, next_id>>

\* comment_to_link(...).await returns: Error, Duplicate, Faked, or the
\* creation of the comment is requested
ListComments ==
    /\ pc = "list_comments"
    /\ \E ok \in BOOLEAN :
        LET it == Unwrap(cur)
            found == comment_to_link(it.link, list_comments(IssueKey(it.issue)))
            then == after_listing(ok, found, dry_run)
        IN  /\ idle' = (IF then = "create_comment"
                          THEN Restart({"create", "call"}) ELSE idle)
            /\ CASE then = "Error" ->
                      Yield(Outcome_error(it.issue, "Fetching comments"), <<>>)
                 [] then = "Duplicate" ->
                      Yield(Outcome_duplicate(it.issue, Unwrap(found).html_url), <<>>)
                 [] then = "Faked" ->
                      Yield(Outcome_faked(it.issue), <<>>)
                 [] then = "create_comment" ->
                      /\ pc' = "create_comment"
                      /\ log' = Append(log, Event("create", it.anchor, ""))
                      /\ UNCHANGED <<cur, outcomes>>
    /\ UNCHANGED <<bot, new_result, timed, dom, repos, extra_repositories, transcript, dry_run, wait,
                   comments, cursor, past, next_id>>

\* issues.create_comment(...).await returns: Error or Created; the comment
\* exists on the tracker if and only if the call succeeded
CreateComment ==
    /\ pc = "create_comment"
    /\ \E ok \in BOOLEAN :
        LET it == Unwrap(cur)
            k == IssueKey(it.issue)
            c == Comment(Some(message(it.link, it.fragment)),
                         NewCommentUrl(it.issue), TRUE)
        IN  /\ IF ok
               THEN /\ comments' = [comments EXCEPT ![k] = Append(@, c)]
                    /\ next_id' = next_id + 1
               ELSE UNCHANGED <<comments, next_id>>
            /\ IF after_create(ok) = "Created"
               THEN Yield(Outcome_created(it.issue, c.html_url), <<>>)
               ELSE Yield(Outcome_error(it.issue, "Posting comment"), <<>>)
    /\ UNCHANGED <<bot, new_result, timed, dom, repos, extra_repositories, transcript, dry_run,
                   idle, wait,
                   cursor, past>>

\* until_key_ready with one cell for all the keys
key_ready_any_key(cells, k) == \A d \in DOMAIN cells : ready(cells[d])

\* Bot.governor.until_key_ready(k) returns: RateLimiter::keyed keeps one
\* cell per key
key_ready(cells, k) == ready(cells[k])

\* the chat front end one tick later
bot_tick(b) ==
    [b EXCEPT !.cells  = [d \in DOMAIN @ |-> IF @[d] > 0 THEN @[d] - 1 ELSE 0],
              !.idle   = [d \in DOMAIN @ |->
                             IF @[d] < 0 \/ @[d] >= Period THEN @[d] ELSE @[d] + 1],
              !.waited = IF b.pc = "until_key_ready" /\ @ < Period THEN @ + 1 ELSE @]

\* time passes while the generator awaits the governor or the tracker, or
\* the chat front end its own governor: the next permits come one tick
\* closer.  (The time the consumer takes between two polls is counted as
\* time spent in until_ready.)
Tick ==
    /\ \/ pc \in {"until_ready", "list_comments", "create_comment"} /\ ~ready(wait)
       \/ bot.pc = "until_key_ready" /\ ~key_ready(bot.cells, Unwrap(bot.out).dest)
    /\ wait' = (IF wait > 0 THEN wait - 1 ELSE 0)
    /\ idle' = [k \in DOMAIN idle |->
                    IF idle[k] < 0 \/ idle[k] >= Period THEN idle[k]
                    ELSE idle[k] + 1]
    /\ bot' = bot_tick(bot)
    /\ UNCHANGED <<new_result, timed, dom, repos, extra_repositories, transcript, dry_run,
                   comments, pc, cursor, cur, outcomes, log, past, next_id>>

\* the consumer's callback failed on an outcome (the chat front end could
\* not send its response): try_for_each stops and the stream is dropped
Drop ==
    /\ pc = "suspended"
    /\ outcomes # <<>>
    /\ consumer_failed(bot)
    /\ pc' = "dropped"
    /\ UNCHANGED <<bot, new_result, timed, dom, repos, extra_repositories, transcript, dry_run,
                   idle, wait,
                   comments, cursor, cur, outcomes, log, past, next_id>>

Finished == pc \in {"done", "dropped", "panicked"}

\* the anchors for which a log reports a comment, made or found
Reported(l) ==
    {l[i].anchor : i \in {j \in 1..Len(l) :
        l[j].ev = "yield" /\ l[j].kind \in {"Created", "Duplicate"}}}

\* the command is given a second time for the same transcript: a new
\* engine, with a new governor, runs against the tracker as the first run
\* left it
Rerun ==
    /\ Finished
    /\ past = <<>>
    /\ past' = <<[reported |-> Reported(log), pc |-> pc]>>
    /\ pc' = "suspended"
    /\ cursor' = 0
    /\ cur' = None
    /\ outcomes' = <<>>
    /\ log' = <<>>
    /\ wait' = 0
    /\ idle' = [permit |-> -1, list |-> -1, create |-> -1, call |-> -1]
    /\ UNCHANGED <<bot, new_result, timed, dom, repos, extra_repositories, transcript, dry_run,
                   comments, next_id>>

Next ==
    \/ Poll
    \/ UntilReady
    \/ ListComments
    \/ CreateComment
    \/ Tick
    \/ Drop

Spec == Init /\ [][Next]_vars

\* the runs of a group that owns w3c/rdf over the structured transcripts,
\* against a tracker without comments
InitDocs ==
    /\ timed = FALSE
    /\ bot = BotOff
    /\ InitFrom(RichDocs, {c \in Configs : Len(c.loaded) = 1}, {<<>>})

SpecDocs == InitDocs /\ [][Next]_vars

\* the runs of a group that owns w3c/rdf over the transcripts of one href
InitParse ==
    /\ timed = FALSE
    /\ bot = BotOff
    /\ InitFrom(UrlDocs, {c \in Configs : Len(c.loaded) = 1}, {<<>>})

SpecParse == InitParse /\ [][Next]_vars

\* the runs that call the tracker twice for a reference, with the times of
\* the entries kept in the history
InitTimed ==
    /\ timed = TRUE
    /\ bot = BotOff
    /\ InitFrom(Docs, {c \in Configs : Len(c.loaded) = 1}, {<<>>})
    /\ new_result = "Ok"
    /\ ~dry_run
    /\ ~transcript

SpecTimed == InitTimed /\ [][Next]_vars

\* transcripts whose text nodes each carry a mark of their own (T0, T1,
\* ...), around headings followed by text, elements, comments, headings
\* that are no boundary and headings that are one
ExcerptDocs ==
    LET E(name, id, parent) == ElementNode(name, id, None, parent)
        A(parent) == ElementNode("a", None, Some(Hrefs.owned), parent)
        T(text, parent) == TextNode(text, parent)
    IN  { \* text, a paragraph, a h5 with an id and a h2 without one, then
          \* the boundary h3 and what follows it
          <<E("h2", Some("a"), 0), A(1), T("T1", 2), T("T2 @bob", 0),
            E("p", None, 0), T("T3", 5), E("h5", Some("c"), 0), T("T4", 7),
            E("h2", None, 0), T("T5", 9), E("h3", Some("b"), 0), T("T6", 11),
            T("T7", 0)>>,
          \* the heading inside a div: its siblings are those of the div
          <<E("div", None, 0), E("h3", Some("a"), 1), A(2), T("T1", 3),
            T("T2", 1), E("h2", Some("b"), 1), T("T3", 6), T("T4", 1),
            E("p", None, 0), T("T5", 9)>>,
          \* a sibling that holds a heading is no boundary
          <<E("h2", Some("a"), 0), A(1), T("T1", 2), E("div", None, 0),
            E("h2", Some("b"), 4), T("T2", 5), T("T3", 0),
            E("h1", Some("c"), 0), T("T4", 8)>>,
          \* text before the heading, and the reference in a h6 after it
          <<T("T0", 0), E("h2", Some("a"), 0), T("T1", 2), E("p", None, 0),
            T("T2", 4), E("h6", Some("d"), 0), A(6), T("T3", 7), T("T4", 0)>>,
          \* a comment among the siblings
          <<E("h2", Some("a"), 0), A(1), T("T1", 2), CommentNode("T2", 0),
            T("T3", 0), E("h4", Some("b"), 0), T("T4", 6)>>,
          \* two sections, each with its reference
          <<E("h2", Some("a"), 0), A(1), T("T1", 2), T("T2", 0),
            E("h2", Some("b"), 0), A(5), T("T3", 6), T("T4", 0)>>,
          \* the boundary right after the heading
          <<E("h2", Some("a"), 0), A(1), T("T1", 2),
            E("h2", Some("b"), 0), T("T2", 4)>> }

\* the runs of a group that owns w3c/rdf over these transcripts
InitExcerpts ==
    /\ timed = FALSE
    /\ bot = BotOff
    /\ InitFrom(ExcerptDocs, {c \in Configs : Len(c.loaded) = 1}, {<<>>})

SpecExcerpts == InitExcerpts /\ [][Next]_vars

\* the same command given once, then a second time
NextRepeat ==
    \/ Next
    \/ Rerun

\* the runs that change the tracker: no dry runs, of a group with
\* repositories, over transcripts whose anchors all point to issues
InitRepeat ==
    /\ Init
    /\ new_result = "Ok"
    /\ ~dry_run
    /\ repos # <<>>
    /\ \A n \in 1..Len(dom) :
          IsSome(dom[n].href) => dom[n].href[1] \in {Hrefs.owned, Hrefs.other}

SpecRepeat == InitRepeat /\ [][NextRepeat]_vars

-----------------------------------------------------------------------------
(* The chat front end: ircbot.rs *)

StartsWith(s, p) == Len(p) <= Len(s) /\ SubSeq(s, 1, Len(p)) = p

EndsWith(s, p) == Len(p) <= Len(s) /\ SubSeq(s, Len(s) - Len(p) + 1, Len(s)) = p

\* s without its first n characters
Skip(s, n) == SubSeq(s, n + 1, Len(s))

LowerOf(c) ==
    CASE c = "A" -> "a" [] c = "B" -> "b" [] c = "C" -> "c" [] c = "D" -> "d"
      [] c = "E" -> "e" [] c = "F" -> "f" [] c = "G" -> "g" [] c = "H" -> "h"
      [] c = "I" -> "i" [] c = "J" -> "j" [] c = "K" -> "k" [] c = "L" -> "l"
      [] c = "M" -> "m" [] c = "N" -> "n" [] c = "O" -> "o" [] c = "P" -> "p"
      [] c = "Q" -> "q" [] c = "R" -> "r" [] c = "S" -> "s" [] c = "T" -> "t"
      [] c = "U" -> "u" [] c = "V" -> "v" [] c = "W" -> "w" [] c = "X" -> "x"
      [] c = "Y" -> "y" [] c = "Z" -> "z" [] OTHER -> c

RECURSIVE Lower(_)
\* the text as a case-insensitive pattern reads it
Lower(s) == IF s = "" THEN "" ELSE LowerOf(CharAt(s, 1)) \o Lower(Tail(s))

\* a value of BotCommand
BotCommand(tag, tr, date, groups) ==
    [tag |-> tag, transcript |-> tr, date |-> date, groups |-> groups]

\* s without the optional part p of a pattern, when s starts with it
Opt(s, p) == IF StartsWith(Lower(s), p) THEN Skip(s, Len(p)) ELSE s

\* the ending ( <word> (?<name>[^ ]+))?$ of a pattern on the text s: whether
\* it matches, and the named group
TokenEnd(s, word) ==
    IF s = "" THEN [ok |-> TRUE, token |-> None]
    ELSE LET t == Skip(s, Len(word) + 2)
         IN  IF StartsWith(Lower(s), " " \o word \o " ") /\ t # "" /\ ~contains(t, " ")
             THEN [ok |-> TRUE, token |-> Some(t)]
             ELSE [ok |-> FALSE, token |-> None]

\* LINK_ISSUES.captures(value):
\* ^(please )?(back)?link (github )?issues( to minutes)?(?<transcript> with transcript)?( for (?<groups>[^ ]+))?$
LINK_ISSUES(value) ==
    LET s1 == Opt(Opt(value, "please "), "back")
        s2 == Opt(Skip(s1, 5), "github ")
        s3 == Opt(Skip(s2, 6), " to minutes")
        s4 == Opt(s3, " with transcript")
        e  == TokenEnd(s4, "for")
    IN  IF StartsWith(Lower(s1), "link ") /\ StartsWith(Lower(s2), "issues") /\ e.ok
        THEN Some([transcript |-> s4 # s3, groups |-> e.token])
        ELSE None

\* HELP.is_match(value): ^(please )?help$
HELP(value) == Lower(Opt(value, "please ")) = "help"

\* BYE.is_match(value): ^bye|out|(please )?(excuse us|leave|part)$
\* The alternation binds weaker than the anchors: the text starts with bye,
\* or holds out, or ends with excuse us, leave or part.
BYE(value) ==
    \/ StartsWith(Lower(value), "bye")
    \/ contains(Lower(value), "out")
    \/ \E w \in {"excuse us", "leave", "part"} : EndsWith(Lower(value), w)

\* DEBUG.captures(value):
\* ^debug( date (?<date>[^ ]+))?( groups (?<groups>[^ ]+))?$
DEBUG(value) ==
    LET s1 == Skip(value, 5)
        d  == IF StartsWith(Lower(s1), " date ")
              THEN LET t == Skip(s1, 6)
                       n == Find(t, " ", 1)
                   IN  IF n = 0 THEN t ELSE SubSeq(t, 1, n - 1)
              ELSE ""
        s2 == IF d = "" THEN s1 ELSE Skip(s1, 6 + Len(d))
        e  == TokenEnd(s2, "groups")
    IN  IF StartsWith(Lower(value), "debug") /\ e.ok
        THEN Some([date |-> IF d = "" THEN None ELSE Some(d), groups |-> e.token])
        ELSE None

\* impl From<&str> for BotCommand
BotCommand_from(value) ==
    IF LINK_ISSUES(value) # None
    THEN BotCommand("LinkIssues", Unwrap(LINK_ISSUES(value)).transcript, None,
                    Unwrap(LINK_ISSUES(value)).groups)
    ELSE IF HELP(value) THEN BotCommand("Help", FALSE, None, None)
    ELSE IF BYE(value) THEN BotCommand("Bye", FALSE, None, None)
    ELSE IF DEBUG(value) # None
    THEN BotCommand("Debug", FALSE, Unwrap(DEBUG(value)).date, Unwrap(DEBUG(value)).groups)
    ELSE BotCommand("Unrecognized", FALSE, None, None)

\* client.current_nickname()
BotNick == "m2gh"

\* an item of client.stream(): an incoming message, INVITE to the channel
\* target or PRIVMSG to target (a channel, or the bot itself) from nick,
\* with its text, action telling a CTCP ACTION, whose text is what the
\* \u{1}ACTION envelope holds; or, of kind Err, an error of the stream
Message(kind, target, nick, text, action) ==
    [kind |-> kind, target |-> target, nick |-> nick, text |-> text, action |-> action]

RECURSIVE TrimStart(_)
TrimStart(s) == IF StartsWith(s, " ") THEN TrimStart(Tail(s)) ELSE s

RECURSIVE TrimEnd(_)
TrimEnd(s) == IF EndsWith(s, " ") THEN TrimEnd(SubSeq(s, 1, Len(s) - 1)) ELSE s

\* Bot::for_me: the command text of a message addressed to the bot
for_me(text) ==
    LET content == TrimEnd(TrimStart(text))
    IN  IF StartsWith(content, BotNick \o ", ")
        THEN Some(Skip(content, Len(BotNick) + 2))
        ELSE None

\* ChannelExt::is_channel_name
is_channel_name(name) ==
    /\ name # ""
    /\ CharAt(name, 1) \in {"#", "&", "+", "!"}
    /\ ~contains(name, " ")
    /\ ~contains(name, ",")

\* my_response_target: the channel of a channel message, the sender of a
\* private one, None when the private message names no sender
my_response_target(target, m) ==
    IF is_channel_name(target) THEN Some(target) ELSE m.nick

\* Display of the Issue of an outcome
IssueDisplay(o) ==
    LET i == try_from_url(o.issue).issue
    IN  i.owner \o "/" \o i.repo \o "#" \o i.id

\* narrate with every outcome reported as a comment made
narrate_all_created(o) == "comment created: " \o o.detail

\* the response of the closure of do_link_issues to an outcome
narrate(o) ==
    CASE o.kind = "Created"   -> "comment created: " \o o.detail
      [] o.kind = "Faked"     -> "comment would have been created for: " \o IssueDisplay(o)
      [] o.kind = "Duplicate" -> "comment already there: " \o o.detail
      [] o.kind = "NotOwned"  -> "issue " \o IssueDisplay(o) \o " not owned by current group(s)"
      [] o.kind = "Error"     -> "a problem occurred when processing " \o IssueDisplay(o)

\* the test of do_link_issues with the counter ignored
nothing_to_do_whatever(c) == TRUE

\* the test of do_link_issues on its counter once the stream has ended
nothing_to_do(c) == c = 0

\* str::parse::<NaiveDate> of the date of a debug command succeeded:
\* digits in three groups separated by dashes
parse_date_ok(d) ==
    LET p == Find(d, "-", 1)
        q == Find(d, "-", p + 1)
    IN  /\ p > 1 /\ q > p + 1 /\ q < Len(d)
        /\ \A i \in 1..Len(d) : i \in {p, q} \/ CharAt(d, i) \in Digits

\* self.respond and the other sends: the chat front end asks its governor
\* for the key of the first of outs, the others following it
ask(b, ctx, outs) ==
    [b EXCEPT !.pc = "until_key_ready", !.ctx = ctx,
              !.out = Some(Head(outs)), !.todo = Tail(outs),
              !.due = b.cells[Head(outs).dest], !.waited = 0]

\* the handler is left: stream.next() is awaited again
next_message(b) ==
    [b EXCEPT !.pc = "stream_next", !.msg = None, !.cmd = None, !.ctx = "",
              !.out = None, !.todo = <<>>, !.due = 0, !.waited = 0]

\* the kind of send of respond for message m
respond_kind(m) == IF m.action THEN "action" ELSE "privmsg"

\* the three responses of Bot::help
help_responses(dest, m) ==
    LET nickname == IF m.nick = None THEN "people" ELSE Unwrap(m.nick)
    IN  <<Out(dest, respond_kind(m), "help", nickname \o ", I am {CARGO_PKG_DESCRIPTION}."),
          Out(dest, respond_kind(m), "help",
              "... I am an instance of {CARGO_PKG_NAME} version {CARGO_PKG_VERSION}."),
          Out(dest, respond_kind(m), "help", "... To know more, see {CARGO_PKG_HOMEPAGE}")>>

\* Bot::poll on item m of the stream, up to the first await of its handler;
\* an error of the stream is returned by poll (transpose()?)
handle(b, m) ==
    IF m.kind = "Err"
    THEN [b EXCEPT !.pc = "returned"]
    ELSE IF m.kind = "INVITE"
    THEN ask(b, "join", <<Out(m.target, "join", "join", "")>>)
    ELSE IF m.kind # "PRIVMSG" \/ for_me(m.text) = None
    THEN next_message(b)
    ELSE LET cmd_str == Unwrap(for_me(m.text))
             cmd     == BotCommand_from(cmd_str)
             target  == my_response_target(m.target, m)
             bc      == [b EXCEPT !.cmd = Some(cmd)]
         IN  IF cmd.tag = "Bye"
             THEN ask(bc, "handler", <<Out(m.target, "part", "bye", "")>>)
             ELSE IF target = None
             THEN [bc EXCEPT !.pc = "panicked"]
             ELSE IF cmd.tag = "Help"
             THEN ask(bc, "handler", help_responses(Unwrap(target), m))
             ELSE IF cmd.tag = "Unrecognized"
             THEN ask(bc, "handler",
                      <<Out(Unwrap(target), respond_kind(m), "sorry",
                            "sorry "
                            \o (IF m.nick = None THEN "people" ELSE Unwrap(m.nick))
                            \o ", I don't understand \"" \o cmd_str \o "\"")>>)
             ELSE IF cmd.tag = "Debug" /\ cmd.date # None /\ ~parse_date_ok(Unwrap(cmd.date))
             THEN [bc EXCEPT !.pc = "err", !.ctx = "handler"]
             ELSE [bc EXCEPT !.pc = "engine_new"]

\* awaits_next with the handlers run as tasks of their own: the next
\* message is taken while a run is drained
awaits_next_while_running(b) == b.pc \in {"stream_next", "try_for_each"}

\* whether Bot::poll awaits stream.next(): the loop awaits each handler to
\* its end before it takes the next message
awaits_next(b) == b.pc = "stream_next"

\* stream.next() of Bot::poll returns a message, which is handled up to
\* the first await of its handler
BotStreamNext ==
    /\ awaits_next(bot)
    /\ bot.inbox # <<>>
    /\ bot' = handle([bot EXCEPT !.inbox = Tail(@), !.msg = Some(Head(bot.inbox)),
                                 !.seq = @ + 1, !.count = 0],
                     Head(bot.inbox))
    /\ UNCHANGED <<new_result, timed, dom, repos, extra_repositories, transcript, dry_run,
                   idle, wait, comments, pc, cursor, cur, outcomes, log, past, next_id>>

\* do_link_issues: Engine::new(...).await? for a link-issues command (not a
\* dry run, with the excerpts if asked) or a debug command (a dry run with
\* the excerpts)
BotEngineNew ==
    /\ bot.pc = "engine_new"
    /\ new_result' \in LoadResults
    /\ pc' = Engine_new(new_result')
    /\ dry_run' = (Unwrap(bot.cmd).tag = "Debug")
    /\ transcript' = (Unwrap(bot.cmd).tag = "Debug" \/ Unwrap(bot.cmd).transcript)
    /\ cursor' = 0
    /\ cur' = None
    /\ outcomes' = <<>>
    /\ log' = <<>>
    /\ wait' = 0
    /\ idle' = [permit |-> -1, list |-> -1, create |-> -1, call |-> -1]
    /\ bot' = IF pc' = "failed"
              THEN [bot EXCEPT !.pc = "err", !.ctx = "handler"]
              ELSE [bot EXCEPT !.pc = "try_for_each", !.count = 0]
    /\ UNCHANGED <<timed, dom, repos, extra_repositories, comments, past, next_id>>

\* the closure of try_for_each is called with the outcome just yielded
BotCallback ==
    /\ bot.pc = "try_for_each"
    /\ pc = "suspended"
    /\ bot.count < Len(outcomes)
    /\ LET o == outcomes[bot.count + 1]
           m == Unwrap(bot.msg)
       IN  bot' = ask([bot EXCEPT !.count = @ + 1], "closure",
                      <<Out(Unwrap(my_response_target(m.target, m)), respond_kind(m),
                            o.kind, narrate(o))>>)
    /\ UNCHANGED <<new_result, timed, dom, repos, extra_repositories, transcript, dry_run,
                   idle, wait, comments, pc, cursor, cur, outcomes, log, past, next_id>>

\* try_for_each returns at the end of the stream: the counter is tested
BotRunEnd ==
    /\ bot.pc = "try_for_each"
    /\ pc \in {"done", "panicked"}
    /\ LET m == Unwrap(bot.msg)
       IN  bot' = IF pc = "panicked" THEN [bot EXCEPT !.pc = "panicked"]
                  ELSE IF nothing_to_do(bot.count)
                  THEN ask(bot, "after_run",
                           <<Out(Unwrap(my_response_target(m.target, m)), respond_kind(m),
                                 "nothing", "nothing to do (no issue in the (sub)topics)")>>)
                  ELSE next_message(bot)
    /\ UNCHANGED <<new_result, timed, dom, repos, extra_repositories, transcript, dry_run,
                   idle, wait, comments, pc, cursor, cur, outcomes, log, past, next_id>>

\* an entry of bot.sent: the send call made for out, whether it succeeded,
\* the number of the message it answers and of the outcome it narrates and,
\* when the times are kept, the ticks since the send before it to the same
\* destination, the ticks the governor was awaited, those its cell asked
\* for, and the other destinations whose cells were not ready
Sent(b, ok) ==
    [dest |-> Unwrap(b.out).dest, kind |-> Unwrap(b.out).kind,
     label |-> Unwrap(b.out).label, text |-> Unwrap(b.out).text, ok |-> ok,
     m |-> b.seq,
     busy   |-> IF timed
                THEN {d \in DOMAIN b.cells : d # Unwrap(b.out).dest /\ b.cells[d] > 0}
                ELSE {},
     since  |-> IF timed THEN b.idle[Unwrap(b.out).dest] ELSE -1,
     waited |-> IF timed THEN b.waited ELSE -1,
     due    |-> IF timed THEN b.due ELSE -1,
     n |-> IF b.ctx = "closure" THEN b.count ELSE 0]

\* what follows a send call that returned ok
after_send(b, ok) ==
    IF ~ok
    THEN IF b.ctx \in {"join", "report"} THEN next_message(b)
         ELSE [b EXCEPT !.pc = "err", !.out = None, !.todo = <<>>]
    ELSE IF b.todo # <<>> THEN ask(b, b.ctx, b.todo)
    ELSE IF b.ctx = "closure"
    THEN [b EXCEPT !.pc = "try_for_each", !.out = None, !.due = 0, !.waited = 0]
    ELSE next_message(b)

\* until_key_ready(key).await returns and the message is handed to the
\* client, which accepts it or not; Bot::bye sends nothing when the message
\* was a private one
BotUntilKeyReady ==
    /\ bot.pc = "until_key_ready"
    /\ key_ready(bot.cells, Unwrap(bot.out).dest)
    /\ LET o == Unwrap(bot.out)
           granted == [bot EXCEPT !.cells[o.dest] = replenish(Period)]
       IN  IF o.kind = "part" /\ ~is_channel_name(o.dest)
           THEN bot' = after_send(granted, TRUE) /\ log' = log
           ELSE \E ok \in BOOLEAN :
                 /\ bot' = after_send([granted EXCEPT !.sent = Append(@, Sent(bot, ok)),
                                                      !.idle[o.dest] = 0],
                                      ok)
                 /\ log' = IF bot.ctx \in {"closure", "after_run"}
                           THEN Append(log, Event("respond",
                                                  IF bot.ctx = "closure"
                                                  THEN log[Len(log)].anchor ELSE 0,
                                                  o.label))
                           ELSE log
    /\ UNCHANGED <<new_result, timed, dom, repos, extra_repositories, transcript, dry_run,
                   idle, wait, comments, pc, cursor, cur, outcomes, past, next_id>>

\* Bot::poll on the error of a handler: one response, whose own failure is
\* ignored.  An error of the closure of try_for_each has dropped the stream
\* before the handler returns.
BotErr ==
    /\ bot.pc = "err"
    /\ bot.ctx = "closure" => pc = "dropped"
    /\ LET m == Unwrap(bot.msg)
           target == my_response_target(m.target, m)
       IN  bot' = IF target = None THEN [bot EXCEPT !.pc = "panicked"]
                  ELSE ask(bot, "report",
                           <<Out(Unwrap(target), respond_kind(m), "wrong",
                                 "Something wrong happened: {err}")>>)
    /\ UNCHANGED <<new_result, timed, dom, repos, extra_repositories, transcript, dry_run,
                   idle, wait, comments, pc, cursor, cur, outcomes, log, past, next_id>>

\* the chat front end serving: the engine's steps and its own
NextBot ==
    \/ Next
    \/ BotStreamNext
    \/ BotEngineNew
    \/ BotCallback
    \/ BotRunEnd
    \/ BotUntilKeyReady
    \/ BotErr

\* the number of messages the chat front end receives
MaxMessages == 2

\* the transcripts of the chat runs: without reference, with a reference to
\* an issue of the group, and with one more to an issue of another group
BotDocs ==
    LET mine   == [name |-> "h2", id |-> Some("a"), href |-> Hrefs.owned, text |-> "@bob"]
        theirs == [name |-> "h2", id |-> Some("ab"), href |-> Hrefs.other, text |-> ""]
    IN  {DocOf(<<>>, 0), DocOf(<<mine>>, 0), DocOf(<<mine, theirs>>, 0)}

\* the messages received: commands on two channels and in private
BotMessages ==
    {Message("PRIVMSG", "#rdf", Some("alice"), "m2gh, link issues", FALSE),
     Message("PRIVMSG", BotNick, Some("alice"), "m2gh, debug", TRUE),
     Message("PRIVMSG", "#did", Some("bob"), "m2gh, please help", FALSE)}

\* the chat front end connected, the messages to come, a group that owns
\* w3c/rdf and a tracker without comments
InitBotFrom(inboxes, docs, t) ==
    /\ timed = t
    /\ bot \in {BotState("stream_next", i) : i \in inboxes}
    /\ InitFrom(docs, {c \in Configs : Len(c.loaded) = 1}, {<<>>})
    /\ new_result = "Ok"
    /\ ~dry_run
    /\ ~transcript

InitBot ==
    InitBotFrom(UNION {[1..n -> BotMessages] : n \in 0..MaxMessages}, BotDocs, FALSE)

SpecBot == InitBot /\ [][NextBot]_vars

\* the same with the times of the sends kept, over the transcript of one
\* reference
InitBotTimed ==
    InitBotFrom(UNION {[1..n -> BotMessages] : n \in 0..MaxMessages},
                {d \in BotDocs : Len(d) = 3}, TRUE)

SpecBotTimed == InitBotTimed /\ [][NextBot]_vars

\* the transcripts of the chat runs that fail: with a reference to an issue
\* of the group, and with a reference whose number does not fit a u64
FaultDocs ==
    {DocOf(<<[name |-> "h2", id |-> Some("a"), href |-> Hrefs.owned, text |-> ""]>>, 0),
     DocOf(<<[name |-> "h2", id |-> Some("a"), href |-> Hrefs.overflow, text |-> ""]>>, 0)}

\* the items received: a command on a channel, a debug command whose date
\* is none, a private command that names no sender, and an error of the
\* stream
FaultMessages ==
    {Message("PRIVMSG", "#rdf", Some("alice"), "m2gh, link issues", FALSE),
     Message("PRIVMSG", "#rdf", Some("alice"), "m2gh, debug date tomorrow", FALSE),
     Message("PRIVMSG", BotNick, None, "m2gh, help", FALSE),
     Message("Err", "", None, "", FALSE)}

InitBotFaults ==
    InitBotFrom(UNION {[1..n -> FaultMessages] : n \in 0..MaxMessages}, FaultDocs, FALSE)

SpecBotFaults == InitBotFaults /\ [][NextBot]_vars

\* command texts: the accepted phrases, in several spellings, and texts
\* that differ from them or hold them
CommandTexts ==
    {"bye", "out", "leave", "part", "excuse us", "please excuse us",
     "please leave", "Please Part", "help", "please help", "HELP",
     "debug", "debug date 2024-11-14", "debug groups wg/did,cg/credentials",
     "debug date 2024-11-14 groups wg/did,cg/credentials",
     "debug date tomorrow", "debug groups wg/layout",
     "debug date 2024-11-14 groups wg/part", "debug date groups groups x",
     "DEBUG date 2024-11-14", "debug date", "debug  date x", "debugger",
     "debug groups a b",
     "link issues", "backlink github issues",
     "please link github issues to minutes",
     "backlink github issues to minutes with transcript for wg/foo,cg/bar",
     "please link issues for wg/layout", "Link Issues With Transcript",
     "link issues for WG/Foo", "link issues for", "link issues for a b",
     "link the issues", "link issues please",
     "anything else", "bye bye everyone", "byebye", "what about the minutes?",
     "please do not leave", "helpme", "help me", ""}

\* one command on a channel, over the transcript of one reference
InitCommands ==
    InitBotFrom({<<Message("PRIVMSG", "#rdf", Some("alice"), BotNick \o ", " \o t, FALSE)>> :
                    t \in CommandTexts},
                {d \in BotDocs : Len(d) = 3}, FALSE)

SpecCommands == InitCommands /\ [][NextBot]_vars

-----------------------------------------------------------------------------
(* What the claims speak of *)

\* the anchors that issues_with_link finds as references: selected by SEL,
\* with an href that parses and a heading that resolves
FoundAnchors ==
    {a \in 1..Len(dom) :
        /\ SEL_matches(dom, a)
        /\ IsSome(dom[a].href)
        /\ try_from_url(Unwrap(dom[a].href)).tag = "Some"
        /\ closest_hn(dom, a) # None}

\* the issue and the deep link of a found anchor
IssueOf(a) == try_from_url(Unwrap(dom[a].href)).issue
LinkOf(a) == Engine_url \o "#" \o Unwrap(dom[Unwrap(closest_hn(dom, a))].id)

\* the entry e of a log is the event ev, of the kind k, about anchor a
Same(e, ev, a, k) == e.ev = ev /\ e.anchor = a /\ e.kind = k

\* the positions of the events ev about anchor a in a log
EventsFor(l, ev, a) == {i \in 1..Len(l) : l[i].ev = ev /\ l[i].anchor = a}

\* the kinds of the outcomes yielded for anchor a in a log
KindsFor(l, a) == {l[i].kind : i \in EventsFor(l, "yield", a)}

\* the repository list holds the very (owner, repo) pair of the issue
ExactlyListed(rs, issue) ==
    \E i \in 1..Len(rs) : rs[i].owner.login = issue.owner /\ rs[i].name = issue.repo

\* the positions, in the tracker's order, of the comments of issue k that a
\* listing returns and whose body holds link
Matches(k, link) ==
    {i \in 1..Len(comments[k]) :
        /\ comments[k][i].recent
        /\ IsSome(comments[k][i].body)
        /\ contains(Unwrap(comments[k][i].body), link)}

OutcomeKinds == {"Created", "Faked", "Duplicate", "NotOwned", "Error"}

Last(q) == q[Len(q)]

\* the step yields exactly one outcome, for the issue of the current item
YieldsOne ==
    /\ Len(outcomes') = Len(outcomes) + 1
    /\ SubSeq(outcomes', 1, Len(outcomes)) = outcomes
    /\ Last(outcomes').issue = Unwrap(cur).issue.url

-----------------------------------------------------------------------------
(* The claims *)

\* C1: every reference found produces exactly one outcome in a run drained
\* to the end: never two outcomes for one anchor at any time, none for an
\* anchor that is no reference, and one for each reference once the run is
\* done; every outcome is of one of the five kinds.
C1_ExactlyOneOutcome ==
    LET found == FoundAnchors
    IN  /\ Len(outcomes) = Cardinality({i \in 1..Len(log) : log[i].ev = "yield"})
        /\ \A i \in 1..Len(outcomes) : outcomes[i].kind \in OutcomeKinds
        /\ \A a \in 1..Len(dom) :
              Cardinality(EventsFor(log, "yield", a))
                  <= (IF a \in found THEN 1 ELSE 0)
        /\ pc = "done" =>
              \A a \in found : Cardinality(EventsFor(log, "yield", a)) = 1

\* a drained run over a document with two references, with two outcomes
C1_Witness ==
    /\ pc = "done"
    /\ Cardinality(FoundAnchors) = 2
    /\ Len(outcomes) = 2

\* C2: the create-comment call is issued at most once per reference, right
\* after that reference's listing, and only when the reference is owned, no
\* listed comment holds its link and the run is no dry run; the Created
\* outcomes are exactly the calls that succeeded, i.e. the comments created.
C2_CreateOnlyWhenDue ==
    /\ \A a \in 1..Len(dom) : Cardinality(EventsFor(log, "create", a)) <= 1
    /\ \A i \in 1..Len(log) :
          log[i].ev = "create" =>
              /\ i > 1
              /\ Same(log[i - 1], "list", log[i].anchor, "")
    /\ pc = "create_comment" =>
          /\ ~dry_run
          /\ ExactlyListed(repos, Unwrap(cur).issue)
          /\ Matches(IssueKey(Unwrap(cur).issue), Unwrap(cur).link) = {}
    /\ \A i \in 1..Len(log) :
          (log[i].ev = "yield" /\ log[i].kind = "Created") =>
              /\ i > 1
              /\ Same(log[i - 1], "create", log[i].anchor, "")
    /\ past = <<>> =>
          Cardinality({i \in 1..Len(outcomes) : outcomes[i].kind = "Created"})
              = next_id - 1

\* a run in which one create-comment call succeeded and another failed
C2_Witness ==
    /\ \E i \in 1..Len(outcomes) : outcomes[i].kind = "Created"
    /\ \E i \in 1..Len(outcomes) :
          outcomes[i].kind = "Error" /\ outcomes[i].detail = "Posting comment"

\* C3: when the listing of a reference holds a comment whose body contains
\* the deep link, the step that ends the duplicate check yields exactly one
\* outcome, Duplicate with the URL of the first such comment (or Error if
\* the listing call itself failed), never requests a creation, and no
\* create-comment call is ever logged for a reference reported Duplicate.
C3_DuplicateSkipsCreate ==
    /\ [][(/\ pc = "list_comments"
           /\ pc' # pc
           /\ Matches(IssueKey(Unwrap(cur).issue), Unwrap(cur).link) # {})
          => LET k == IssueKey(Unwrap(cur).issue)
                 M == Matches(k, Unwrap(cur).link)
                 first == CHOOSE i \in M : \A j \in M : i <= j
             IN  /\ pc' = "suspended"
                 /\ YieldsOne
                 /\ \/ /\ Last(outcomes').kind = "Duplicate"
                       /\ Last(outcomes').detail = comments[k][first].html_url
                    \/ /\ Last(outcomes').kind = "Error"
                       /\ Last(outcomes').detail = "Fetching comments"
                 /\ comments' = comments]_vars
    /\ [](\A a \in 1..Len(dom) :
            "Duplicate" \in KindsFor(log, a) =>
                /\ EventsFor(log, "create", a) = {}
                /\ Cardinality(EventsFor(log, "yield", a)) = 1)

\* a Duplicate outcome that carries the URL of an existing comment
C3_Witness ==
    \E i \in 1..Len(outcomes) :
        outcomes[i].kind = "Duplicate" /\ outcomes[i].detail = "c2"

\* anchors a and b point to the same issue under the same heading
SameTarget(a, b) ==
    /\ IssueKey(IssueOf(a)) = IssueKey(IssueOf(b))
    /\ LinkOf(a) = LinkOf(b)

\* C4: the decision to create or skip is idempotent.  A second run over the
\* same transcript, against the tracker as the first run left it, issues no
\* create-comment call for an anchor the first run reported Created or
\* Duplicate, nor for another anchor to the same issue under the same
\* heading; and within one run at most one comment is created for the
\* anchors that point to the same issue under the same heading.
C4_CreateOrSkipIdempotent ==
    /\ past # <<>> =>
          \A j \in 1..Len(log) :
              log[j].ev = "create" =>
                  \A a \in past[1].reported : ~SameTarget(a, log[j].anchor)
    /\ \A i, j \in 1..Len(log) :
          (/\ i < j
           /\ Same(log[i], "yield", log[i].anchor, "Created")
           /\ Same(log[j], "yield", log[j].anchor, "Created"))
          => ~SameTarget(log[i].anchor, log[j].anchor)

\* a second run that finds, for two anchors to the same issue under the
\* same heading, the one comment the first run created
C4_Witness ==
    /\ past # <<>>
    /\ Cardinality(past[1].reported) = 2
    /\ next_id = 2
    /\ \A a \in past[1].reported : "Duplicate" \in KindsFor(log, a)

\* C5: in a dry run no create-comment call is ever issued and the tracker
\* is never changed; a reference that is owned and whose listing holds no
\* comment with its link yields Faked (or Error if the listing call failed).
C5_DryRunNeverMutates ==
    /\ [](dry_run =>
            /\ pc # "create_comment"
            /\ \A i \in 1..Len(log) : log[i].ev # "create"
            /\ \A i \in 1..Len(outcomes) : outcomes[i].kind # "Created"
            /\ next_id = 1)
    /\ [][dry_run => comments' = comments]_vars
    /\ [][(/\ dry_run
           /\ pc = "list_comments"
           /\ pc' # pc
           /\ Matches(IssueKey(Unwrap(cur).issue), Unwrap(cur).link) = {})
          => /\ pc' = "suspended"
             /\ YieldsOne
             /\ \/ Last(outcomes').kind = "Faked"
                \/ /\ Last(outcomes').kind = "Error"
                   /\ Last(outcomes').detail = "Fetching comments"]_vars

\* a dry run that yielded Faked
C5_Witness ==
    /\ dry_run
    /\ \E i \in 1..Len(outcomes) : outcomes[i].kind = "Faked"

\* C6: the ownership test comes before the duplicate check.  A reference
\* whose (owner, repo) pair is not in the list gets NotOwned right after its
\* permit, and neither a listing nor a creation is ever requested for it; a
\* listing is requested only right after the permit of an owned reference.
C6_OwnershipBeforeDuplicates ==
    /\ \A a \in FoundAnchors :
          ~ExactlyListed(repos, IssueOf(a)) =>
              /\ EventsFor(log, "list", a) = {}
              /\ EventsFor(log, "create", a) = {}
              /\ KindsFor(log, a) \subseteq {"NotOwned"}
              /\ \A i \in EventsFor(log, "permit", a) :
                    /\ i < Len(log)
                    /\ Same(log[i + 1], "yield", a, "NotOwned")
    /\ \A i \in 1..Len(log) :
          log[i].ev = "list" =>
              /\ i > 1
              /\ Same(log[i - 1], "permit", log[i].anchor, "")
    /\ pc \in {"list_comments", "create_comment"} =>
          ExactlyListed(repos, Unwrap(cur).issue)

\* a reference reported NotOwned by a group that has repositories
C6_Witness ==
    /\ repos # <<>>
    /\ \E i \in 1..Len(outcomes) : outcomes[i].kind = "NotOwned"

C8_OwnedIffExactPair ==
    /\ \A i \in 1..Len(log) :
          log[i].ev = "yield" =>
              (log[i].kind = "NotOwned"
                  <=> ~ExactlyListed(repos, IssueOf(log[i].anchor)))
    /\ pc \in {"list_comments", "create_comment"} =>
          ExactlyListed(repos, Unwrap(cur).issue)

\* w3c/rdf reported NotOwned by a list that holds w3c/RDF and W3C/rdf
C8_Witness ==
    /\ \E i \in 1..Len(repos) : repos[i].owner.login = "w3c" /\ repos[i].name = "RDF"
    /\ \E i \in 1..Len(repos) : repos[i].owner.login = "W3C" /\ repos[i].name = "rdf"
    /\ \E i \in 1..Len(log) :
          /\ log[i].ev = "yield"
          /\ log[i].kind = "NotOwned"
          /\ IssueOf(log[i].anchor).owner = "w3c"
          /\ IssueOf(log[i].anchor).repo = "rdf"

\* C9: a reference into a repository given with --repository is never
\* reported NotOwned
C9_ExtraRepositoriesOwned ==
    \A a \in FoundAnchors :
        (\E i \in 1..Len(extra_repositories) :
            LET r == RepositoryFrom(extra_repositories[i])
            IN  r.owner.login = IssueOf(a).owner /\ r.name = IssueOf(a).repo)
        => "NotOwned" \notin KindsFor(log, a)

\* C10: a failed listing or a failed creation never ends the stream: the
\* step that ends a tracker call yields one outcome for the current
\* reference and leaves the generator suspended at the same place of the
\* document, or goes on to the creation.  A reference with an Error outcome
\* has that one outcome, for its own issue; and once the run is done every
\* reference after it has exactly one outcome too.
C10_ErrorDoesNotStopRun ==
    /\ [][(pc \in {"list_comments", "create_comment"} /\ pc' # pc)
          => /\ cursor' = cursor
             /\ \/ /\ pc' = "suspended"
                   /\ YieldsOne
                \/ /\ pc = "list_comments"
                   /\ pc' = "create_comment"
                   /\ outcomes' = outcomes]_vars
    /\ [](\A a \in 1..Len(dom) :
            "Error" \in KindsFor(log, a) =>
                /\ Cardinality(EventsFor(log, "yield", a)) = 1
                /\ \E i \in 1..Len(outcomes) :
                      /\ outcomes[i].kind = "Error"
                      /\ outcomes[i].issue = IssueOf(a).url
                /\ pc = "done" =>
                      \A b \in FoundAnchors :
                          b > a => Cardinality(EventsFor(log, "yield", b)) = 1)

\* a drained run whose first reference failed and whose second got a comment
C10_Witness ==
    /\ pc = "done"
    /\ Len(outcomes) = 2
    /\ outcomes[1].kind = "Error"
    /\ outcomes[2].kind = "Created"


\* C11: when a load of Engine::new fails there is no engine: the stream is
\* never polled, no outcome is yielded, no permit is taken and no tracker
\* call is made, and the tracker stays as it was.
C11_LoadFailureAborts ==
    /\ [](new_result # "Ok" =>
            /\ pc = "failed"
            /\ outcomes = <<>>
            /\ log = <<>>
            /\ cur = None
            /\ next_id = 1)
    /\ [][new_result # "Ok" => comments' = comments]_vars

\* the list of repositories could not be loaded, for a transcript that was
\* loaded and that holds a reference
C11_Witness ==
    /\ new_result = "Failed loading JSON"
    /\ FoundAnchors # {}
    /\ pc = "failed"

\* C12: outcomes come in the document order of their anchors.  The entries
\* of the history are grouped by anchor, the anchors in document order; the
\* outcome of an anchor is yielded before anything happens for a later
\* anchor; and the i-th outcome is the i-th yield of the history.
C12_DocumentOrder ==
    LET ys == SelectSeq(log, LAMBDA e : e.ev = "yield")
    IN  /\ \A i, j \in 1..Len(log) :
              i < j =>
                  /\ log[i].anchor <= log[j].anchor
                  /\ log[i].anchor < log[j].anchor =>
                        \E m \in i..(j - 1) :
                            log[m].ev = "yield" /\ log[m].anchor = log[i].anchor
        /\ \A i, j \in 1..Len(ys) : i < j => ys[i].anchor < ys[j].anchor
        /\ Len(ys) = Len(outcomes)
        /\ \A i \in 1..Len(ys) :
              /\ outcomes[i].kind = ys[i].kind
              /\ outcomes[i].issue = Unwrap(dom[ys[i].anchor].href)

\* two references, each with a tracker call, and their two outcomes
C12_Witness ==
    /\ Len(outcomes) = 2
    /\ \E i, j \in 1..Len(log) :
          /\ log[i].ev = "list"
          /\ log[j].ev = "create"
          /\ log[i].anchor < log[j].anchor


\* the positions of the events ev in a log
Positions(l, ev) == {i \in 1..Len(l) : l[i].ev = ev}

\* C13 as stated: a create-comment call is made at least the interval
\* after the create-comment call before it
C13_CreateCallsSpaced ==
    \A j \in Positions(log, "create") :
        log[j].at < 0 \/ log[j].at >= Period

\* C13, amended: a permit is granted at least the interval after the
\* permit before it, and a create-comment call is made after the permit of
\* its own reference.
C13_PermitsSpaced ==
    /\ \A j \in Positions(log, "permit") :
          log[j].at < 0 \/ log[j].at >= Period
    /\ \A j \in Positions(log, "create") :
          \E i \in Positions(log, "permit") :
              /\ i < j
              /\ log[i].anchor = log[j].anchor

\* a create-comment call made less than the interval after the one before
C13_Witness ==
    \E j \in Positions(log, "create") :
        /\ log[j].at >= 0
        /\ log[j].at < Period

\* the tracker calls of a log
Calls(l) == Positions(l, "list") \cup Positions(l, "create")

\* C14 as stated: every tracker call comes right after a permit of its
\* own, at least the interval after the tracker call before it
C14_PermitPerCall ==
    /\ \A j \in Calls(log) : j > 1 /\ log[j - 1].ev = "permit"
    /\ \A j \in Calls(log) :
          log[j].call < 0 \/ log[j].call >= Period

\* C14, amended: one permit per reference, taken before anything else is
\* done for it.  The first entry of an anchor is its one permit, the
\* listing and the creation of a reference follow with no permit between
\* them, and a listing is made at least the interval after the listing
\* before it.
C14_PermitPerReference ==
    /\ \A i \in 1..Len(log) :
          (i = 1 \/ log[i - 1].anchor # log[i].anchor) <=> log[i].ev = "permit"
    /\ \A j \in Positions(log, "list") :
          log[j].at < 0 \/ log[j].at >= Period
    /\ \A j \in Positions(log, "create") :
          /\ j > 2
          /\ log[j - 1].ev = "list"
          /\ log[j - 2].ev = "permit"

\* the listing and the creation for one reference at the same tick, on
\* one permit
C14_Witness ==
    \E j \in Positions(log, "create") :
        /\ log[j - 1].ev = "list"
        /\ log[j].call = 0
        /\ Cardinality(Positions(log, "permit")) = 1


\* the anchors about which a log has an entry
AnchorsOf(l) == {l[i].anchor : i \in 1..Len(l)}

\* C15: the stream is lazy.  While the generator waits to be polled, or
\* after the consumer dropped it, every anchor the history knows of has its
\* outcome, so nothing was done for a later reference; while one reference
\* is in hand, it is the only one the history knows of without an outcome.
\* No permit is taken and no call is made in a step that starts from the
\* suspended generator, and once the consumer dropped the stream nothing
\* is yielded, asked of the tracker or changed on it any more.
C15_LazyStream ==
    /\ [](pc \in {"suspended", "dropped", "done", "panicked"} =>
            /\ Cardinality(AnchorsOf(log)) = Len(outcomes)
            /\ \A a \in AnchorsOf(log) : EventsFor(log, "yield", a) # {})
    /\ [](pc \in {"until_ready", "list_comments", "create_comment"} =>
            \A a \in AnchorsOf(log) :
                EventsFor(log, "yield", a) = {} => a = Unwrap(cur).anchor)
    /\ [][pc = "suspended" => (log' = log /\ comments' = comments)]_vars
    /\ [][pc = "dropped" =>
            UNCHANGED <<pc, cursor, cur, outcomes, log, comments, next_id>>]_vars

\* the consumer stopped after the first of two references: the history
\* knows nothing of the second
C15_Witness ==
    /\ pc = "dropped"
    /\ Len(outcomes) = 1
    /\ Cardinality(FoundAnchors) = 2
    /\ AnchorsOf(log) # FoundAnchors


RECURSIVE Chain(_)
\* node n, its parent, the parent of its parent, ... up to the root
Chain(n) == <<n>> \o (IF dom[n].parent = 0 THEN <<>> ELSE Chain(dom[n].parent))

\* node h is a heading of level 1 to 4 that carries an id
IdentifiedHeading14(h) ==
    /\ dom[h].kind = "element"
    /\ dom[h].name \in {"h1", "h2", "h3", "h4"}
    /\ dom[h].id # None

\* the nearest identified heading of node n: for the first element of the
\* chain of n that is, or comes after, such a heading among the children of
\* its parent, the last such heading at or before it
NearestHeading(n) ==
    LET c == Chain(n)
        cand(i) == {h \in 1..c[i] :
                       dom[h].parent = dom[c[i]].parent /\ IdentifiedHeading14(h)}
        is == {i \in 1..Len(c) : cand(i) # {}}
    IN  IF is = {} THEN None
        ELSE LET i == CHOOSE x \in is : \A y \in is : x <= y
             IN  Some(CHOOSE h \in cand(i) : \A g \in cand(i) : g <= h)

\* node a is an anchor element
IsAnchor(a) == dom[a].kind = "element" /\ dom[a].name = "a"

\* the href of anchor a is an issue reference
Parses(a) ==
    /\ dom[a].href # None
    /\ try_from_url(Unwrap(dom[a].href)).tag = "Some"

\* anchor a is inside a heading, of any level, that carries an id
InIdentifiedHeading(a) ==
    \E i \in 2..Len(Chain(a)) :
        LET m == Chain(a)[i]
        IN  /\ dom[m].name \in {"h1", "h2", "h3", "h4", "h5", "h6"}
            /\ dom[m].id # None

\* C16 as stated: in a run drained to its end every anchor of the document
\* whose href is an issue reference and for which a heading resolves has an
\* outcome
C16_EveryAnchorConsidered ==
    pc = "done" =>
        \A a \in 1..Len(dom) :
            (IsAnchor(a) /\ Parses(a) /\ NearestHeading(a) # None)
                => EventsFor(log, "yield", a) # {}

\* C16, amended: the engine considers the anchors that are inside a heading
\* (h1 to h6) carrying an id, and no other.  Whatever the history knows of is
\* such an anchor, whose href is an issue reference and for which a heading
\* resolves; and in a run drained to its end each of these has exactly one
\* outcome.
C16_AnchorsInHeadingsConsidered ==
    LET considered == {a \in 1..Len(dom) :
                          /\ IsAnchor(a)
                          /\ InIdentifiedHeading(a)
                          /\ Parses(a)
                          /\ NearestHeading(a) # None}
    IN  /\ AnchorsOf(log) \subseteq considered
        /\ pc = "done" =>
              \A a \in considered : Cardinality(EventsFor(log, "yield", a)) = 1

\* a drained run that left alone an anchor to an issue, under a heading
\* but outside every heading
C16_Witness ==
    /\ pc = "done"
    /\ \E a \in 1..Len(dom) :
          /\ IsAnchor(a)
          /\ Parses(a)
          /\ NearestHeading(a) # None
          /\ ~InIdentifiedHeading(a)
          /\ a \notin AnchorsOf(log)

\* C17: fragment resolution returns the nearest identified heading: for
\* every anchor of the document, the heading of find_closest_hn_id is the
\* first heading of level 1 to 4 with an id met when going up the chain of
\* the anchor and, at each element, back through its preceding siblings;
\* and the deep link of the reference in hand is made of that heading's id.
C17_NearestHeadingWins ==
    /\ \A a \in 1..Len(dom) :
          IsAnchor(a) => closest_hn(dom, a) = NearestHeading(a)
    /\ cur # None =>
          /\ NearestHeading(Unwrap(cur).anchor) # None
          /\ Unwrap(cur).link =
                Engine_url \o "#"
                    \o Unwrap(dom[Unwrap(NearestHeading(Unwrap(cur).anchor))].id)

\* h1 a, then h2 b, then the anchor: the link goes to b
C17_Witness ==
    /\ Len(dom) = 4
    /\ dom[1].name = "h1" /\ dom[1].id = Some("a")
    /\ dom[2].name = "h2" /\ dom[2].id = Some("b")
    /\ cur # None
    /\ Unwrap(cur).anchor = 4
    /\ Unwrap(cur).link = Engine_url \o "#b"

\* C18: no deep link ends in a bare '#'
C18_NonEmptyFragment ==
    cur # None => Unwrap(cur).link # Engine_url \o "#"

\* C19: an anchor whose href is an issue reference and for which no heading
\* resolves is skipped: the history knows nothing of it (no permit, no
\* tracker call, no outcome), and in a run drained to its end every
\* reference after it has its outcome.
C19_NoHeadingSkipped ==
    \A a \in 1..Len(dom) :
        (IsAnchor(a) /\ Parses(a) /\ NearestHeading(a) = None) =>
            /\ a \notin AnchorsOf(log)
            /\ (cur # None => Unwrap(cur).anchor # a)
            /\ pc = "done" =>
                  \A b \in (a + 1)..Len(dom) :
                      (/\ IsAnchor(b)
                       /\ InIdentifiedHeading(b)
                       /\ Parses(b)
                       /\ NearestHeading(b) # None)
                      => Cardinality(EventsFor(log, "yield", b)) = 1

\* a drained run over a h5 with nothing before it, then a h2: the one
\* outcome is that of the anchor of the h2
C19_Witness ==
    /\ pc = "done"
    /\ Len(dom) = 4
    /\ dom[1].name = "h5"
    /\ NearestHeading(2) = None
    /\ Len(outcomes) = 1
    /\ AnchorsOf(log) = {4}


RECURSIVE Split(_)
\* the parts of string s between its slashes
Split(s) ==
    LET i == Find(s, "/", 1)
    IN  IF i = 0 THEN <<s>>
        ELSE <<SubSeq(s, 1, i - 1)>> \o Split(SubSeq(s, i + 1, Len(s)))

\* string s is made of decimal digits, one at least
IsNumber(s) ==
    /\ Len(s) > 0
    /\ \A i \in 1..Len(s) :
          CharAt(s, i) \in {"0", "1", "2", "3", "4", "5", "6", "7", "8", "9"}

\* url ends in //github.com/<owner>/<repo>/<kind>/<digits>
IsIssueUrl(url) ==
    LET p == Split(url)
        n == Len(p)
    IN  /\ n >= 7
        /\ p[n - 5] = ""
        /\ p[n - 4] = "github.com"
        /\ p[n - 3] # ""
        /\ p[n - 2] # ""
        /\ p[n - 1] \in {"issues", "pull", "#"}
        /\ IsNumber(p[n])

\* C20: for every href of the transcript, Issue::try_from_url returns the
\* reference with the owner, the repo and the number of the URL if the href
\* ends in //github.com/<owner>/<repo>/<kind>/<digits>, and nothing otherwise
C20_ParsesExactlyIssueUrls ==
    \A a \in 1..Len(dom) :
        dom[a].href # None =>
            LET url == Unwrap(dom[a].href)
                p == Split(url)
                n == Len(p)
                r == try_from_url(url)
            IN  IF IsIssueUrl(url)
                THEN /\ r.tag = "Some"
                     /\ r.issue.url = url
                     /\ r.issue.owner = p[n - 3]
                     /\ r.issue.repo = p[n - 2]
                     /\ r.issue.id = StripZeros(p[n])
                ELSE r.tag = "None"


-----------------------------------------------------------------------------
(* C21: the data-model invariant of the references the parser constructs *)

\* C21: every reference the engine takes from the parser has a number that
\* is not 0 and an owner and a repo that are not empty
C21_ReferenceInvariant ==
    IsSome(cur) =>
        /\ Unwrap(cur).issue.id # "0"
        /\ Unwrap(cur).issue.owner # ""
        /\ Unwrap(cur).issue.repo # ""


-----------------------------------------------------------------------------
(* C22: the duplicate detector *)

\* the characters that can continue a fragment identifier
FragmentChars ==
    WordChars \cup {"-", "_", ".", ":", "%", "~", "+", "!", "$", "&", "'",
                    "(", ")", "*", ",", ";", "=", "/", "?", "@"}

\* text txt cites the deep link itself: somewhere the link is written out and
\* is not continued into a longer fragment identifier
CitesLink(txt, link) ==
    \E i \in 1..Len(txt) :
        /\ i + Len(link) - 1 <= Len(txt)
        /\ SubSeq(txt, i, i + Len(link) - 1) = link
        /\ \/ i + Len(link) > Len(txt)
           \/ CharAt(txt, i + Len(link)) \notin FragmentChars

\* C22: when the listing of a reference answers, the detector returns the
\* first listed comment whose body contains the deep link, nothing when no
\* listed body contains it, and never a comment that cites only another
\* fragment of the transcript
C22_FirstMatchOfThisFragment ==
    (pc = "list_comments" /\ IsSome(cur)) =>
        LET items == list_comments(IssueKey(Unwrap(cur).issue))
            link  == Unwrap(cur).link
            hits  == {i \in 1..Len(items) :
                         /\ IsSome(items[i].body)
                         /\ contains(Unwrap(items[i].body), link)}
            r     == comment_to_link(link, items)
        IN  /\ hits = {} <=> r = None
            /\ hits # {} => r = Some(items[CHOOSE i \in hits : \A j \in hits : i <= j])
            /\ IsSome(r) => CitesLink(Unwrap(Unwrap(r).body), link)


-----------------------------------------------------------------------------
(* C23: the body of a created comment *)

\* the deep link of the heading resolved for anchor a
DeepLink(a) ==
    Engine_url \o "#" \o Unwrap(dom[Unwrap(NearestHeading(a))].id)

\* the body due for anchor a: the sentence of the template around the deep
\* link, followed by the collapsible section when transcripts are enabled
ExpectedBody(a) ==
    "This was discussed during the [" \o ArgsChannel \o " meeting on "
    \o "04 November 2026" \o "](" \o DeepLink(a) \o ")."
    \o (IF transcript
        THEN "\n\n<details><summary><i>View the transcript</i></summary>\n\n"
             \o extract_fragment(dom, Unwrap(NearestHeading(a))).content
             \o "\n<hr /></details>"
        ELSE "")

\* C23: the body of every comment the engine creates is the template with
\* %URL% replaced by the deep link of the resolved heading, followed by the
\* collapsible section with the excerpt when transcripts are enabled and by
\* nothing when they are not (the excerpt is then empty); and the duplicate
\* check of the reference searches the listed bodies for that same deep link
C23_BodyComposition ==
    /\ [][(pc = "create_comment" /\ comments' # comments)
          => LET it == Unwrap(cur)
                 k  == IssueKey(it.issue)
             IN  /\ Len(comments'[k]) = Len(comments[k]) + 1
                 /\ Last(comments'[k]).body = Some(ExpectedBody(it.anchor))
                 /\ ~transcript => it.fragment = ""]_vars
    /\ [][(pc = "list_comments" /\ pc' # pc)
          => LET it == Unwrap(cur)
                 M  == Matches(IssueKey(it.issue), DeepLink(it.anchor))
             IN  /\ (pc' = "suspended" /\ Last(outcomes').kind = "Duplicate")
                        => M # {}
                 /\ (pc' = "create_comment"
                        \/ (pc' = "suspended" /\ Last(outcomes').kind = "Faked"))
                        => M = {}]_vars

\* a comment created with the deep link and the excerpt of its heading
C23_Witness ==
    \E k \in DOMAIN comments : \E i \in 1..Len(comments[k]) :
        /\ IsSome(comments[k][i].body)
        /\ contains(Unwrap(comments[k][i].body), "](" \o Engine_url \o "#a).")
        /\ transcript
        /\ contains(Unwrap(comments[k][i].body), "<code>@bob</code></a></h2>\n<hr /></details>")


-----------------------------------------------------------------------------
(* C24: sanitization of the excerpt *)

\* the two steps extract_fragment applies to the markup of the excerpt
sanitize(markup) == at_word_replace(clean(markup))

\* C24: the excerpt of the reference the engine holds, which is the output
\* of the sanitization, is left as it is by a second sanitization, and a
\* name it mentions is wrapped in one code span, not in two
C24_SanitizeIdempotent ==
    (IsSome(cur) /\ transcript) =>
        /\ sanitize(Unwrap(cur).fragment) = Unwrap(cur).fragment
        /\ ~contains(sanitize(Unwrap(cur).fragment), "<code><code>")


-----------------------------------------------------------------------------
(* C25 to C28: the chat front end draining a run *)

\* where the answers to message m go: its channel, or its sender when it
\* was sent to the bot in private
RequesterTarget(m) ==
    IF CharAt(m.target, 1) = "#" THEN m.target ELSE Unwrap(m.nick)

\* the chat front end is draining a run: in try_for_each, or answering from
\* its closure or after its end
InRun ==
    \/ bot.pc = "try_for_each"
    \/ bot.pc \in {"until_key_ready", "err"} /\ bot.ctx \in {"closure", "after_run"}

\* the send calls made for outcome i of the run of the message in hand
AnswersTo(i) ==
    {k \in 1..Len(bot.sent) : bot.sent[k].m = bot.seq /\ bot.sent[k].n = i}

\* text tells an outcome of this kind and detail
Tells(text, o) ==
    CASE o.kind = "Created"   -> StartsWith(text, "comment created") /\ EndsWith(text, o.detail)
      [] o.kind = "Duplicate" -> StartsWith(text, "comment already there") /\ EndsWith(text, o.detail)
      [] o.kind = "Faked"     -> StartsWith(text, "comment would have been created for")
      [] o.kind = "NotOwned"  -> EndsWith(text, "not owned by current group(s)")
      [] o.kind = "Error"     -> StartsWith(text, "a problem occurred")

\* C25: while the chat front end drains a run, every outcome yielded so far,
\* whatever its kind, has had exactly one response, except the last one
\* while its response is awaited, which has none yet; the response goes to
\* the channel of the request, or to the requester of a private one, and
\* tells that outcome
C25_EveryOutcomeAnswered ==
    InRun =>
        \A i \in 1..Len(outcomes) :
            /\ Cardinality(AnswersTo(i))
                 = (IF i < bot.count \/ (i = bot.count /\ bot.pc # "until_key_ready")
                    THEN 1 ELSE 0)
            /\ \A k \in AnswersTo(i) :
                 /\ bot.sent[k].dest = RequesterTarget(Unwrap(bot.msg))
                 /\ bot.sent[k].kind \in {"privmsg", "action"}
                 /\ bot.sent[k].label = outcomes[i].kind
                 /\ Tells(bot.sent[k].text, outcomes[i])

\* a run answered in private, an Error and a NotOwned among its responses
C25_Witness ==
    /\ InRun
    /\ Len(outcomes) = 2
    /\ \A i \in 1..2 : AnswersTo(i) # {}
    /\ outcomes[1].kind = "Error"
    /\ outcomes[2].kind = "NotOwned"
    /\ Unwrap(bot.msg).target = BotNick

\* the 'nothing to do' responses to the message in hand
NothingToDo ==
    {k \in 1..Len(bot.sent) : bot.sent[k].m = bot.seq /\ bot.sent[k].label = "nothing"}

\* C26: 'nothing to do' is sent at most once for a message, and only for a
\* run that ended without any outcome; and when a run has ended, the
\* response is asked for exactly if it yielded no outcome
C26_NothingToDoOnce ==
    /\ [](/\ Cardinality(NothingToDo) <= 1
          /\ NothingToDo # {} => (pc = "done" /\ outcomes = <<>>)
          /\ NothingToDo # {} => bot.ctx \in {"", "after_run", "report"})
    /\ [][(bot.pc = "try_for_each" /\ pc = "done" /\ bot' # bot)
          => IF outcomes = <<>>
             THEN /\ bot'.pc = "until_key_ready"
                  /\ Unwrap(bot'.out).label = "nothing"
                  /\ Unwrap(bot'.out).dest = RequesterTarget(Unwrap(bot.msg))
                  /\ bot'.todo = <<>>
             ELSE bot'.pc = "stream_next"]_vars
    /\ [][(bot.pc = "until_key_ready" /\ bot.ctx = "after_run" /\ bot'.pc # bot.pc)
          => /\ Len(bot'.sent) = Len(bot.sent) + 1
             /\ Last(bot'.sent).label = "nothing"
             /\ bot'.pc \in {"stream_next", "err"}]_vars

\* two runs that found no reference, each with its one response
C26_Witness ==
    /\ bot.seq = 2
    /\ bot.pc = "stream_next"
    /\ pc = "done"
    /\ Cardinality(NothingToDo) = 1
    /\ Cardinality({k \in 1..Len(bot.sent) : bot.sent[k].label = "nothing"}) = 2

\* C27: the responses follow the outcomes one by one: in the history of a
\* run an outcome is directly followed by its response, so that a permit or
\* a tracker call for the next reference comes after it, and the generator
\* is at work only when every outcome has had its response
C27_SequentialDrain ==
    /\ \A j \in Positions(log, "yield") :
          j < Len(log) =>
              /\ log[j + 1].ev = "respond"
              /\ log[j + 1].anchor = log[j].anchor
              /\ log[j + 1].kind = log[j].kind
    /\ \A j \in Positions(log, "respond") :
          log[j].kind # "nothing" => (j > 1 /\ log[j - 1].ev = "yield")
    /\ (bot.pc # "off" /\ pc \in {"until_ready", "list_comments", "create_comment"})
          => /\ bot.pc = "try_for_each"
             /\ bot.count = Len(outcomes)
             /\ \A i \in 1..Len(outcomes) : AnswersTo(i) # {}

\* the second reference handled after the response to the first outcome
C27_Witness ==
    /\ bot.pc = "try_for_each"
    /\ Len(outcomes) = 2
    /\ bot.count = 2
    /\ \E j \in Positions(log, "respond") : \E i \in Positions(log, "permit") : j < i

\* C28: two sends to the same destination are at least a period apart, and
\* the governor is awaited for a destination just as long as the cell of
\* that destination asks, whatever the cells of the other destinations
C28_KeyedByDestination ==
    \A k \in 1..Len(bot.sent) :
        /\ bot.sent[k].since < 0 \/ bot.sent[k].since >= Period
        /\ bot.sent[k].waited = bot.sent[k].due

\* a send made at once while the cell of another destination was not
\* ready, after a send that had to wait for its own
C28_Witness ==
    /\ timed
    /\ \E k \in 1..Len(bot.sent) : bot.sent[k].busy # {} /\ bot.sent[k].waited = 0
    /\ \E k \in 1..Len(bot.sent) : bot.sent[k].since = Period /\ bot.sent[k].waited > 0


-----------------------------------------------------------------------------
(* C29 and C30: the command texts *)

RECURSIVE Words(_)
\* the parts of s between its spaces
Words(s) ==
    LET i == Find(s, " ", 1)
    IN  IF i = 0 THEN <<s>> ELSE <<SubSeq(s, 1, i - 1)>> \o Words(Skip(s, i))

\* the link-issues phrases without groups
LinkPhrases ==
    {p \o b \o "link " \o g \o "issues" \o m \o w :
        p \in {"", "please "}, b \in {"", "back"}, g \in {"", "github "},
        m \in {"", " to minutes"}, w \in {"", " with transcript"}}

\* text is a link-issues phrase followed by 'for' and one token
LinkPhraseFor(text) ==
    LET w == Words(text)
        n == Len(w)
    IN  /\ n >= 4
        /\ w[n] # ""
        /\ EndsWith(text, " " \o w[n - 1] \o " " \o w[n])
        /\ Lower(w[n - 1]) = "for"
        /\ Lower(SubSeq(text, 1, Len(text) - Len(w[n]) - 5)) \in LinkPhrases

\* text is one of the four debug forms
DebugForm(text) ==
    LET w == Words(text)
        k == [i \in 1..Len(w) |-> Lower(w[i])]
    IN  /\ \A i \in 1..Len(w) : w[i] # ""
        /\ \/ k = <<"debug">>
           \/ Len(w) = 3 /\ k[1] = "debug" /\ k[2] \in {"date", "groups"}
           \/ Len(w) = 5 /\ k[1] = "debug" /\ k[2] = "date" /\ k[4] = "groups"

\* text is an accepted command phrase
AcceptedPhrase(text) ==
    \/ Lower(text) \in LinkPhrases
    \/ LinkPhraseFor(text)
    \/ Lower(text) \in {"help", "please help"}
    \/ Lower(text) \in {"bye", "out", "excuse us", "leave", "part",
                        "please excuse us", "please leave", "please part"}
    \/ DebugForm(text)

\* C29: the command parsed from the message in hand is Unrecognized unless
\* its text is an accepted phrase; a text that only holds or starts with a
\* command word is not Bye
C29_OnlyAcceptedPhrases ==
    (bot.cmd # None /\ bot.msg # None) =>
        LET text == Unwrap(for_me(Unwrap(bot.msg).text))
        IN  ~AcceptedPhrase(text) => Unwrap(bot.cmd).tag = "Unrecognized"

\* C30: a text of one of the four debug forms is parsed as Debug with the
\* date and the groups it gives and no other, and a link-issues phrase
\* followed by 'for G' as LinkIssues with G
C30_TokensCarried ==
    (bot.cmd # None /\ bot.msg # None) =>
        LET text == Unwrap(for_me(Unwrap(bot.msg).text))
            w == Words(text)
            cmd == Unwrap(bot.cmd)
        IN  /\ DebugForm(text) =>
                /\ cmd.tag = "Debug"
                /\ cmd.date = (IF Len(w) >= 3 /\ Lower(w[2]) = "date"
                               THEN Some(w[3]) ELSE None)
                /\ cmd.groups = (IF Len(w) = 5 THEN Some(w[5])
                                 ELSE IF Len(w) = 3 /\ Lower(w[2]) = "groups"
                                 THEN Some(w[3]) ELSE None)
            /\ LinkPhraseFor(text) =>
                /\ cmd.tag = "LinkIssues"
                /\ cmd.groups = Some(w[Len(w)])


\* the nodes of the excerpt of heading h: h itself and the siblings after
\* it that come before the first sibling after h that is a heading of level
\* 1 to 4 with an id
ExcerptRoots(h) ==
    LET after == {m \in (h + 1)..Len(dom) : dom[m].parent = dom[h].parent}
        bounds == {m \in after : IdentifiedHeading14(m)}
    IN  {h} \cup {m \in after : \A b \in bounds : m < b}

\* the text nodes of the document
TextNodes == {n \in 1..Len(dom) : dom[n].kind = "text"}

\* the mark of text node n: the first word of its text
Mark(n) == Words(dom[n].text)[1]

\* text node n is, or is inside, one of the nodes of the excerpt of h
InExcerpt(n, h) == \E i \in 1..Len(Chain(n)) : Chain(n)[i] \in ExcerptRoots(h)

\* C31: with excerpts requested, the excerpt of the reference in hand holds
\* the heading and its following siblings up to the next boundary and
\* nothing else: the mark of a text node is in the excerpt exactly when the
\* node is, or is inside, the heading or one of these siblings; the marks
\* come in document order; the excerpt starts with the heading; and the mark
\* of no comment is in it.
C31_ExcerptUpToBoundary ==
    (cur # None /\ transcript) =>
        LET h == Unwrap(NearestHeading(Unwrap(cur).anchor))
            x == Unwrap(cur).fragment
        IN  /\ \A n \in TextNodes : contains(x, Mark(n)) <=> InExcerpt(n, h)
            /\ \A n, m \in TextNodes :
                  (InExcerpt(n, h) /\ InExcerpt(m, h) /\ n < m)
                      => Find(x, Mark(n), 1) < Find(x, Mark(m), 1)
            /\ StartsWith(x, "<" \o dom[h].name \o ">")
            /\ \A n \in 1..Len(dom) :
                  dom[n].kind = "comment" => ~contains(x, dom[n].text)

\* the reference of a heading followed by text, a paragraph, a h5 with an
\* id, a h2 without one, and then a h3 with an id: the excerpt holds T1 to
\* T5 and neither T6 nor T7
C31_Witness ==
    /\ cur # None
    /\ transcript
    /\ Len(dom) = 13
    /\ dom[11].name = "h3"
    /\ contains(Unwrap(cur).fragment, "T5")
    /\ ~contains(Unwrap(cur).fragment, "T6")
    /\ ~contains(Unwrap(cur).fragment, "T7")


\* C32: Issue::try_from_url is total: for the href of every anchor the run
\* has taken from the document it returned a reference or nothing, and no
\* run is aborted by it.
C32_TryFromUrlTotal ==
    /\ \A k \in 1..cursor :
          LET a == select(dom)[k]
          IN  IsSome(dom[a].href) =>
                  try_from_url(Unwrap(dom[a].href)).tag \in {"Some", "None"}
    /\ pc # "panicked"


\* the step ends the handling of the current reference with one outcome of
\* kind k
EndsReference(k) ==
    /\ pc' = "suspended"
    /\ YieldsOne
    /\ Last(outcomes').kind = k

\* C33: a dry run differs from a real run in the final step only.  In both
\* modes the step that follows the wait for the governor records the permit
\* and makes the ownership test (NotOwned, or the request of the listing);
\* in both modes the step that ends the listing yields Error when the call
\* failed, Duplicate when (and only when) a listed comment holds the link,
\* and otherwise takes the final step, which is the request of the creation
\* in a real run and the outcome Faked in a dry run.  Faked is never seen in
\* a real run, and a dry run never requests a creation.
C33_DryRunSameReads ==
    /\ [][(pc = "until_ready" /\ pc' # pc) =>
            LET a == Unwrap(cur).anchor
            IN  /\ Len(log') > Len(log)
                /\ Same(log'[Len(log) + 1], "permit", a, "")
                /\ IF ExactlyListed(repos, Unwrap(cur).issue)
                   THEN /\ pc' = "list_comments"
                        /\ Len(log') = Len(log) + 2
                        /\ Same(Last(log'), "list", a, "")
                        /\ outcomes' = outcomes
                   ELSE /\ EndsReference("NotOwned")
                        /\ Len(log') = Len(log) + 2]_vars
    /\ [][(pc = "list_comments" /\ pc' # pc) =>
            LET cited == Matches(IssueKey(Unwrap(cur).issue), Unwrap(cur).link) # {}
                final == IF dry_run
                         THEN EndsReference("Faked")
                         ELSE pc' = "create_comment" /\ outcomes' = outcomes
            IN  /\ \/ final
                   \/ EndsReference("Duplicate")
                   \/ EndsReference("Error")
                /\ final => ~cited
                /\ EndsReference("Duplicate") <=> (cited /\ ~EndsReference("Error"))
                /\ comments' = comments]_vars
    /\ [](/\ ~dry_run => \A i \in 1..Len(outcomes) : outcomes[i].kind # "Faked"
          /\ dry_run => \A i \in 1..Len(log) : log[i].ev # "create"
          /\ \A a \in 1..Len(dom) :
                "Faked" \in KindsFor(log, a) =>
                    /\ EventsFor(log, "permit", a) # {}
                    /\ EventsFor(log, "list", a) # {}
                    /\ ExactlyListed(repos, IssueOf(a))
                    /\ Matches(IssueKey(IssueOf(a)), LinkOf(a)) = {})

\* a dry run over two references of the group, each with its permit and
\* its listing: the comments of the first hold its link, and the listing of
\* the second failed
C33_Witness ==
    /\ dry_run
    /\ Len(outcomes) = 2
    /\ outcomes[1].kind = "Duplicate"
    /\ outcomes[2].kind = "Error"
    /\ Cardinality({i \in 1..Len(log) : log[i].ev = "permit"}) = 2
    /\ Cardinality({i \in 1..Len(log) : log[i].ev = "list"}) = 2


\* the send calls made with the 'Something wrong happened' text in answer
\* to the message number k
WrongFor(k) ==
    {i \in 1..Len(bot.sent) : bot.sent[i].label = "wrong" /\ bot.sent[i].m = k}

\* C34: the chat front end keeps serving after a failed command.  When a
\* handler has returned an error, the next step of the chat front end asks
\* for one 'Something wrong happened' response to the requester; once that
\* send call is made, accepted or not, the next message is awaited, none of
\* the messages to come being lost; no message is answered with two such
\* responses; and the poll loop is left only for an error of the stream.
C34_KeepsServing ==
    /\ [][(bot.pc = "err" /\ bot'.pc # bot.pc) =>
            /\ bot'.pc = "until_key_ready"
            /\ bot'.ctx = "report"
            /\ Unwrap(bot'.out).label = "wrong"
            /\ Unwrap(bot'.out).dest = RequesterTarget(Unwrap(bot.msg))
            /\ bot'.todo = <<>>
            /\ bot'.inbox = bot.inbox]_vars
    /\ [][(bot.pc = "until_key_ready" /\ bot.ctx = "report" /\ bot'.pc # bot.pc) =>
            /\ bot'.pc = "stream_next"
            /\ Len(bot'.sent) = Len(bot.sent) + 1
            /\ Last(bot'.sent).label = "wrong"
            /\ bot'.inbox = bot.inbox]_vars
    /\ [](\A k \in 1..bot.seq : Cardinality(WrongFor(k)) <= 1)
    /\ [](bot.pc \notin {"off", "stream_next", "engine_new", "try_for_each",
                          "until_key_ready", "err"}
              => Unwrap(bot.msg).kind = "Err")


\* a run of the engine is in progress: the generator is at work, or
\* suspended after its first poll
RunInProgress ==
    \/ pc \in {"until_ready", "list_comments", "create_comment"}
    \/ pc = "suspended" /\ cursor > 0

\* C35: the chat front end handles the commands one at a time.  A message
\* is taken from the stream only when stream.next() is awaited: no response
\* is in hand or to come and no run is in progress; an engine is made only
\* when no run is in progress; every send call is made for the message in
\* hand, so that the send calls of two commands, on one channel or two, are
\* never interleaved.
C35_OneCommandAtATime ==
    /\ [][bot'.seq # bot.seq =>
            /\ bot'.seq = bot.seq + 1
            /\ bot.pc = "stream_next"
            /\ bot.out = None /\ bot.todo = <<>>
            /\ ~RunInProgress]_vars
    /\ [][(bot.pc = "engine_new" /\ bot'.pc # bot.pc) => ~RunInProgress]_vars
    /\ [][Len(bot'.sent) # Len(bot.sent) =>
            /\ Len(bot'.sent) = Len(bot.sent) + 1
            /\ Last(bot'.sent).m = bot.seq
            /\ bot'.seq = bot.seq
            /\ Last(bot'.sent).dest = RequesterTarget(Unwrap(bot.msg))]_vars
    /\ [](/\ \A i, j \in 1..Len(bot.sent) : i < j => bot.sent[i].m <= bot.sent[j].m
          /\ RunInProgress => (bot.pc \in {"try_for_each", "until_key_ready", "err"}
                                /\ bot.msg # None)
          /\ bot.pc = "stream_next" => ~RunInProgress)

\* two runs, asked on a channel and in private, each with a response to an
\* outcome: those of the first all come before those of the second
C35_Witness ==
    /\ bot.seq = 2
    /\ \E i, j \in 1..Len(bot.sent) :
          /\ bot.sent[i].m = 1 /\ bot.sent[i].n > 0
          /\ bot.sent[j].m = 2 /\ bot.sent[j].n > 0
          /\ bot.sent[i].dest # bot.sent[j].dest

====
